---- MODULE Spec2Model ----
(***************************************************************************)
(* Model of the ruliatrix generators: the Pascal coefficient rows and the  *)
(* multi-dimensional coordinate mapper (pascal_triangle.py), the G(2)      *)
(* symmetry-graph builder (galois_theory.py), the fractal point-cloud      *)
(* generator (fractal_recursion.py), the multinomial coefficient of        *)
(* utils.py and the project structure generator (create_structure.py).     *)
(*                                                                         *)
(* Python lists are sequences; Python index i is TLA+ index i+1.           *)
(***************************************************************************)
EXTENDS Integers, Sequences, FiniteSets, TLC

VARIABLES
    max_rows,       \* the "Number of Rows" parameter handed to the generators
    dimension,      \* the "Dimension" parameter
    called,         \* which generator calls of this run have been made
    raised,         \* the exception the last call raised, "none" if it returned
    triangle,       \* value returned by generate_pascal_triangle(max_rows)
    pascal_3d,      \* value returned by create_pascal_3d(max_rows, dimension)
    symmetry_type,  \* the symmetry_type argument of the last graph call
    detail_level,   \* the detail_level argument of the last graph call
    G,              \* the graph object G of create_g2_symmetry_graph
    earlier,        \* history: <<>> or <<r>>, r the arguments and the graph
                    \* of the first graph call and whether a call with other
                    \* arguments was made since, to compare two calls
    fractal_type,   \* the fractal_type argument of generate_fractal_recursion
    depth,          \* its depth argument
    fpc,            \* where the call stands: "idle", "base" (before the base
                    \* points), "loop", "returned" or "raised"; "pass" when
                    \* single passes of the spawning loop are followed
    d,              \* the loop variable d of the depth loop
    points,         \* the list `points`: the base set, then the active set
    all_points,     \* the accumulated list `all_points`
    fractal_data,   \* the list the call returned
    spawn_p,        \* the point (x, y, z, val) of one pass of the spawning loop
    spawn_q,        \* its point (x2, y2, z2, val2)
    spawned,        \* <<>> or <<r>>, r the point that pass appended
    n_points,       \* len(points), when only the sizes are followed
    n_all,          \* len(all_points), when only the sizes are followed
    mc_n,           \* the argument n of compute_multinomial_coefficient
    k_list,         \* its argument k_list
    coefficient,    \* <<>> or <<r>>, r the value the call returned
    dirs,           \* the directories that exist below base_dir's parent; a
                    \* path is the sequence of its names below base_dir
    files,          \* the files that exist, as paths
    gpc,            \* where generate() stands: "idle", "start", "folders",
                    \* "walk", "inits", "boilerplate", "done" or "raised"
    folder_idx,     \* position in self.folders of create_directory_structure
    all_dirs,       \* the directories create_init_files still has to visit
    file_idx,       \* position in the files of create_boilerplate_files
    failed,         \* the paths whose creation failed in this run
    run,            \* which run of generate() this is: "first" or "second"
                    \* ("none" when the script is not followed)
    first_run       \* <<>> or <<r>>, r what the first run left and whether
                    \* every creation of it succeeded

pascalVars == <<triangle, pascal_3d>>
graphVars == <<symmetry_type, detail_level, G, earlier>>
fractalVars == <<fractal_type, depth, fpc, d, points, all_points, fractal_data>>
spawnVars == <<spawn_p, spawn_q, spawned>>
sizeVars == <<n_points, n_all>>
utilVars == <<mc_n, k_list, coefficient>>
structVars == <<dirs, files, gpc, folder_idx, all_dirs, file_idx, failed, run, first_run>>
vars == <<max_rows, dimension, called, raised, pascalVars, graphVars, fractalVars,
          spawnVars, sizeVars, utilVars, structVars>>

(***************************************************************************)
(* Bounds of the model.                                                    *)
(***************************************************************************)
MaxRows == 6            \* row counts 0..MaxRows are explored
MaxFractalRows == 2     \* row counts 1..MaxFractalRows of the fractal generator
MaxDepth == 1           \* recursion depths 1..MaxDepth are explored
MaxSpawnRows == 14      \* row counts 1..MaxSpawnRows of the single spawning passes
MaxPascalBasedRows == 4 \* row counts 1..MaxPascalBasedRows of the Pascal-based calls

\* The caps of the resampling between depths.  The source samples at most
\* 50 points (30 in Combined mode); the model keeps the caps as bounds small
\* enough for every sample to be enumerated, and large or small enough that
\* both the capped and the uncapped case occur.
SampleCap == 1          \* min(len(new_points), 50)
CombinedCap == 1        \* min(len(new_points), 30)

MinDimension == 2
MaxDimension == 5
Dimensions == MinDimension..MaxDimension

MinDetail == 1
MaxDetail == 5
DetailLevels == MinDetail..MaxDetail

SymmetryTypes == {"Root System", "Weyl Group", "Dynkin Diagram"}

FractalTypes == {"Pascal-based", "Galois-transformed", "Combined"}

\* the largest recursion depth the depth slider offers
DepthLimit == 4

\* the row counts the "Number of Rows" slider offers
MinRows == 5
MaxSliderRows == 30

\* the values the sliders and the select boxes start with
DefaultRows == 10
DefaultDimension == 3
DefaultDetail == 3
DefaultDepth == 2
DefaultSymmetryType == "Root System"
DefaultFractalType == "Pascal-based"

(***************************************************************************)
(* Helpers for Python lists.                                               *)
(***************************************************************************)
Range(n) == 0..(n - 1)                          \* range(n)

RECURSIVE Concat(_)
Concat(ss) == IF ss = <<>> THEN <<>> ELSE Head(ss) \o Concat(Tail(ss))

RECURSIVE SumSeq(_)
SumSeq(s) == IF s = <<>> THEN 0 ELSE Head(s) + SumSeq(Tail(s))

RECURSIVE Pow(_, _)
Pow(b, e) == IF e = 0 THEN 1 ELSE b * Pow(b, e - 1)

(***************************************************************************)
(* math.factorial                                                          *)
(***************************************************************************)
RECURSIVE factorial(_)
factorial(n) == IF n <= 1 THEN 1 ELSE n * factorial(n - 1)

(***************************************************************************)
(* int(comb(n, k)) with scipy.special.comb in its default floating mode:   *)
(* the multiplication formula, with k reduced by symmetry when k > n/2,    *)
(* num and den accumulated as doubles, one division, then int()            *)
(* truncation.  Every product below 2^53 is exact in a double, which       *)
(* covers all n the model explores, so the doubles are modelled by the     *)
(* integers they hold and int(num/den) by the truncating quotient.         *)
(***************************************************************************)
RECURSIVE combNum(_, _, _)
combNum(n, kx, i) == IF i = 0 THEN 1 ELSE combNum(n, kx, i - 1) * (i + n - kx)

combReduced(n, k) == IF 2 * k > n /\ n > 0 THEN n - k ELSE k

\* a plausible slip: the running product starts one factor too low
combOffByOne(n, k) ==
    LET kx == combReduced(n, k)
    IN  combNum(n - 1, kx, kx) \div factorial(kx)

comb(n, k) ==
    LET kx == combReduced(n, k)
    IN  combNum(n, kx, kx) \div factorial(kx)

(***************************************************************************)
(* generate_pascal_triangle(rows)                                          *)
(***************************************************************************)
\* a plausible slip: range(n) for the inner loop, losing the last entry
PascalRowShort(n) == [idx \in 1..n |-> comb(n, idx - 1)]

PascalRow(n) == [idx \in 1..(n + 1) |-> comb(n, idx - 1)]

generate_pascal_triangle(rows) == [idx \in 1..rows |-> PascalRow(idx - 1)]

(***************************************************************************)
(* Real numbers of the coordinate mapper.  A rational is a pair            *)
(* <<num, den>>, kept as the code computes it (k - n/2 is <<2k - n, 2>>).  *)
(* log1p(value) is irrational: it is kept as the record [ln |-> 1 + value].*)
(***************************************************************************)
Rat(num, den) == <<num, den>>
log1p(value) == [ln |-> 1 + value]

(***************************************************************************)
(* create_pascal_3d(rows, dimension): the list `points` built by the       *)
(* branch of the dimension, then the list `result` with the log value.     *)
(***************************************************************************)
\* dimension == 2: one point per (n, k)
Point2(n, k) == <<Rat(2 * k - n, 2), Rat(0, 1), Rat(-n, 1), comb(n, k)>>

Points2Row(n) == [idx \in 1..(n + 1) |-> Point2(n, idx - 1)]

\* dimension == 3: for i in range(n+1): for j in range(n-i+1): k = n-i-j.
\* value = int(n! / (i! j! k!)): a true division of two integers, correctly
\* rounded, of a quotient far below 2^53, then int() truncation.
\* a plausible slip: the factorial of the third index is left out
TetraValueNoK(n, i, j, k) ==
    factorial(n) \div (factorial(i) * factorial(j))

TetraValue(n, i, j, k) ==
    factorial(n) \div (factorial(i) * factorial(j) * factorial(k))

TetraPoint(n, i, j) ==
    LET k == n - i - j
    IN  <<Rat(3 * i - n, 3), Rat(3 * j - n, 3), Rat(-3 * n + k, 3),
          TetraValue(n, i, j, k)>>

\* a plausible slip: range(n - i) for the inner loop, losing k = 0
Points3RowShort(n) ==
    Concat([ii \in 1..(n + 1) |->
        [jj \in 1..(n - (ii - 1)) |-> TetraPoint(n, ii - 1, jj - 1)]])

Points3Row(n) ==
    Concat([ii \in 1..(n + 1) |->
        [jj \in 1..(n - (ii - 1) + 1) |-> TetraPoint(n, ii - 1, jj - 1)]])

\* dimension >= 4: a point on the sphere of radius rows - n at the angles
\* theta = point_idx * 2*pi/rows and phi = n * pi/rows.  sin and cos of these
\* angles are irrational for general rows, so a coordinate is kept as the
\* record of its factors.
RowPointCap == 50

Min(a, b) == IF a < b THEN a ELSE b

\* a plausible slip: one representative coefficient, the central one, for
\* every point of the row
SpherePointRepresentative(rows, n, point_idx) ==
    LET theta == Rat(2 * point_idx, rows)
        phi   == Rat(n, rows)
    IN  <<[r |-> rows - n, sin_phi |-> phi, cos_theta |-> theta],
          [r |-> rows - n, sin_phi |-> phi, sin_theta |-> theta],
          [r |-> rows - n, cos_phi |-> phi],
          comb(n, n \div 2)>>

SpherePoint(rows, n, point_idx) ==
    LET theta == Rat(2 * point_idx, rows)      \* in units of pi
        phi   == Rat(n, rows)                  \* in units of pi
    IN  <<[r |-> rows - n, sin_phi |-> phi, cos_theta |-> theta],
          [r |-> rows - n, sin_phi |-> phi, sin_theta |-> theta],
          [r |-> rows - n, cos_phi |-> phi],
          comb(n, Min(point_idx, n))>>

PointsHighRow(rows, n) ==
    [idx \in 1..Min(n + 1, RowPointCap) |-> SpherePoint(rows, n, idx - 1)]

\* a plausible slip: range(rows + 1) in the tetrahedron branch
Pascal3dPointsExtraRow(rows, dim) ==
    IF dim = 2 THEN Concat([idx \in 1..rows |-> Points2Row(idx - 1)])
    ELSE IF dim = 3 THEN Concat([idx \in 1..(rows + 1) |-> Points3Row(idx - 1)])
    ELSE IF dim >= 4 THEN Concat([idx \in 1..rows |-> PointsHighRow(rows, idx - 1)])
    ELSE <<>>

Pascal3dPoints(rows, dim) ==
    IF dim = 2 THEN Concat([idx \in 1..rows |-> Points2Row(idx - 1)])
    ELSE IF dim = 3 THEN Concat([idx \in 1..rows |-> Points3Row(idx - 1)])
    ELSE IF dim >= 4 THEN Concat([idx \in 1..rows |-> PointsHighRow(rows, idx - 1)])
    ELSE <<>>

WithLog(p) == <<p[1], p[2], p[3], log1p(p[4]), p[4]>>

create_pascal_3d(rows, dim) ==
    LET pts == Pascal3dPoints(rows, dim)
    IN  [idx \in 1..Len(pts) |-> WithLog(pts[idx])]

(***************************************************************************)
(* networkx.Graph.  A graph is a record of two dictionaries: nodes maps a  *)
(* node to its attribute dictionary, edges maps an undirected edge {u, v}  *)
(* to its attribute dictionary.  An attribute dictionary is a function     *)
(* from attribute names.  Nodes are always added in increasing order of    *)
(* their number, so the insertion order networkx keeps is that order.      *)
(***************************************************************************)
EmptyAttrs == [a \in {} |-> a]

NxGraph == [nodes |-> [n \in {} |-> EmptyAttrs], edges |-> [e \in {} |-> EmptyAttrs]]

\* a plausible slip: G kept at module level and reused by the next call
KeptGraph == G

\* G = nx.Graph() at the start of every call
FreshGraph == NxGraph

\* The calls G.add_node(n, **attrs) and G.add_edge(u, v, **attrs) of a
\* construction, in program order.
NodeOp(n, attrs) == [op |-> "add_node", n |-> n, attrs |-> attrs]
EdgeOp(u, v, attrs) == [op |-> "add_edge", u |-> u, v |-> v, attrs |-> attrs]

\* dict.update with each attribute dictionary in turn
RECURSIVE UpdateAll(_, _)
UpdateAll(attrs, ops) ==
    IF ops = <<>> THEN attrs
    ELSE UpdateAll(Head(ops).attrs @@ attrs, Tail(ops))

\* The graph after the calls `ops` on the graph g.  add_node creates the
\* node or updates its attributes; add_edge creates its missing end nodes
\* with no attributes, then creates the edge or updates its attributes.  So
\* a node's dictionary is its old one updated by its add_node calls in
\* order, and an edge's dictionary likewise by its add_edge calls.
Apply(g, ops) ==
    LET nodeOps == SelectSeq(ops, LAMBDA o : o.op = "add_node")
        edgeOps == SelectSeq(ops, LAMBDA o : o.op = "add_edge")
        nodeSet == DOMAIN g.nodes
                     \cup {nodeOps[idx].n : idx \in DOMAIN nodeOps}
                     \cup {edgeOps[idx].u : idx \in DOMAIN edgeOps}
                     \cup {edgeOps[idx].v : idx \in DOMAIN edgeOps}
        edgeSet == DOMAIN g.edges
                     \cup {{edgeOps[idx].u, edgeOps[idx].v} : idx \in DOMAIN edgeOps}
    IN  [nodes |-> [n \in nodeSet |->
                      UpdateAll(IF n \in DOMAIN g.nodes THEN g.nodes[n] ELSE EmptyAttrs,
                                SelectSeq(nodeOps, LAMBDA o : o.n = n))],
         edges |-> [e \in edgeSet |->
                      UpdateAll(IF e \in DOMAIN g.edges THEN g.edges[e] ELSE EmptyAttrs,
                                SelectSeq(edgeOps, LAMBDA o : {o.u, o.v} = e))]]

(***************************************************************************)
(* Coordinates of the graph nodes.  A coordinate is <<a, b, c, d>> and     *)
(* stands for the real number (a + b*sqrt(2) + c*sqrt(3) + d*sqrt(6)) / 2, *)
(* which holds every value the three constructions produce:                *)
(* p / sqrt(2) = <<0, p, 0, 0>>, cos and sin of the multiples of pi/6,     *)
(* and the halves of the Dynkin layout.                                    *)
(***************************************************************************)
Half(h) == <<h, 0, 0, 0>>                  \* h / 2
OverSqrt2(p) == <<0, p, 0, 0>>             \* p / np.sqrt(2)

CoordAdd(x, y) == [c \in 1..4 |-> x[c] + y[c]]
CoordScale(k, x) == [c \in 1..4 |-> k * x[c]]

VecAdd(u, v) == [c \in 1..3 |-> CoordAdd(u[c], v[c])]
VecScale(k, u) == [c \in 1..3 |-> CoordScale(k, u[c])]
VecSub(u, v) == VecAdd(u, VecScale(-1, v))

(***************************************************************************)
(* Root System: the fundamental roots, the 6 positive roots, their         *)
(* negatives, one node per root, one edge per pair i < j whose distance    *)
(* np.linalg.norm(roots[i] - roots[j]) is below 2 + detail_level * 0.5.    *)
(***************************************************************************)
alpha1 == <<OverSqrt2(1), OverSqrt2(-1), OverSqrt2(0)>>
alpha2 == <<OverSqrt2(0), OverSqrt2(1), OverSqrt2(-1)>>

PositiveRoots ==
    << alpha1,
       alpha2,
       VecAdd(alpha1, alpha2),
       VecAdd(VecScale(2, alpha1), alpha2),
       VecAdd(VecScale(3, alpha1), alpha2),
       VecAdd(VecScale(3, alpha1), VecScale(2, alpha2)) >>

\* a plausible slip: roots.extend(roots) without the negation
RootsNotNegated == PositiveRoots \o PositiveRoots

Roots ==
    PositiveRoots \o [idx \in 1..Len(PositiveRoots) |-> VecScale(-1, PositiveRoots[idx])]

\* Every root coordinate is a multiple of 1/sqrt(2), so the squared norm of
\* a difference <<0,b1,0,0>>, <<0,b2,0,0>>, <<0,b3,0,0>> is (b1^2+b2^2+b3^2)/2.
\* TwiceNormSq is twice that: an integer.
TwiceNormSq(diff) == diff[1][2] * diff[1][2] + diff[2][2] * diff[2][2] + diff[3][2] * diff[3][2]

\* dist < 2 + detail_level * 0.5, both sides doubles.  The threshold
\* (4 + detail)/2 is exact.  dist = sqrt(S/2), S = TwiceNormSq, is compared
\* exactly through 2*S < (4 + detail)^2 except when the two are equal: the
\* only such pairs have S = 18 (exact distance 3, threshold 3.0 at detail 2),
\* and for them the coordinates 3/sqrt(2) are rounded to
\* 2.1213203435596424, the sum of squares to 8.999999999999998 and the norm
\* to 2.9999999999999996, which is below 3.0.
RoundedBelow == {18}

\* a plausible slip: the threshold shrinking with the detail level
DistBelowShrinking(S, detail) == 2 * S < (4 - detail) * (4 - detail)

DistBelow(S, detail) ==
    \/ 2 * S < (4 + detail) * (4 + detail)
    \/ 2 * S = (4 + detail) * (4 + detail) /\ S \in RoundedBelow

\* weight = 1/dist = sqrt(2/S); a weight is the record of a rational and of
\* whether its square root is meant
InvDist(S) == [num |-> 2, den |-> S, sqrt |-> TRUE]
Weight(num, den) == [num |-> num, den |-> den, sqrt |-> FALSE]

RootNodeOps ==
    [idx \in 1..Len(Roots) |-> NodeOp(idx - 1, [pos |-> Roots[idx], type |-> "root"])]

\* the pairs (i, j) of  for i in range(n): for j in range(i+1, n)
PairsAfter(n) ==
    Concat([ii \in 1..n |-> [jj \in 1..(n - ii) |-> <<ii - 1, ii - 1 + jj>>]])

\* a plausible slip: the root edges tagged like the edges of the other modes
RootEdgeOpsTagged(detail) ==
    LET S(pr) == TwiceNormSq(VecSub(Roots[pr[1] + 1], Roots[pr[2] + 1]))
        near == SelectSeq(PairsAfter(Len(Roots)), LAMBDA pr : DistBelow(S(pr), detail))
    IN  [idx \in 1..Len(near) |->
            EdgeOp(near[idx][1], near[idx][2],
                   [weight |-> InvDist(S(near[idx])), type |-> "adjacent"])]

RootEdgeOps(detail) ==
    LET S(pr) == TwiceNormSq(VecSub(Roots[pr[1] + 1], Roots[pr[2] + 1]))
        near == SelectSeq(PairsAfter(Len(Roots)), LAMBDA pr : DistBelow(S(pr), detail))
    IN  [idx \in 1..Len(near) |->
            EdgeOp(near[idx][1], near[idx][2], [weight |-> InvDist(S(near[idx]))])]

(***************************************************************************)
(* Weyl Group: 12 nodes on the unit circle, node i at the angle 2*pi*i/12; *)
(* for each i the generator edge to i+1 and the relation edges to i+j,     *)
(* j in range(2, 2 + detail_level), all modulo 12.                         *)
(***************************************************************************)
WeylOrder == 12

\* cos(2*pi*i/12) for i = 0..11, and sin(a) = cos(a - pi/2)
CosTwelfth(i) ==
    LET t == << <<2, 0, 0, 0>>, <<0, 0, 1, 0>>, <<1, 0, 0, 0>>, <<0, 0, 0, 0>>,
                <<-1, 0, 0, 0>>, <<0, 0, -1, 0>>, <<-2, 0, 0, 0>>, <<0, 0, -1, 0>>,
                <<-1, 0, 0, 0>>, <<0, 0, 0, 0>>, <<1, 0, 0, 0>>, <<0, 0, 1, 0>> >>
    IN  t[(i % 12) + 1]
SinTwelfth(i) == CosTwelfth(i + 9)

WeylNodeOps ==
    [idx \in 1..WeylOrder |->
        NodeOp(idx - 1, [pos |-> <<CosTwelfth(idx - 1), SinTwelfth(idx - 1), Half(0)>>,
                         type |-> "group_element"])]

\* a plausible slip: the offsets stopped short of the detail level
WeylOffsetsCapped(detail) == 2..Min(1 + detail, 4)

\* range(2, 2 + detail_level)
WeylOffsets(detail) == 2..(1 + detail)

\* a plausible slip: the relation offsets started at 1, over the generators
WeylEdgeOpsAtFromOne(i, detail) ==
    <<EdgeOp(i, (i + 1) % WeylOrder, [type |-> "generator"])>> \o
    [idx \in 1..(1 + detail) |-> EdgeOp(i, (i + idx) % WeylOrder, [type |-> "relation"])]

WeylEdgeOpsAt(i, detail) ==
    LET offs == WeylOffsets(detail)
        n == Cardinality(offs)
    IN  <<EdgeOp(i, (i + 1) % WeylOrder, [type |-> "generator"])>> \o
        [idx \in 1..n |-> EdgeOp(i, (i + idx + 1) % WeylOrder, [type |-> "relation"])]

WeylEdgeOps(detail) ==
    Concat([idx \in 1..WeylOrder |-> WeylEdgeOpsAt(idx - 1, detail)])

(***************************************************************************)
(* Dynkin Diagram: two simple roots joined by the triple edge; for         *)
(* detail_level > 2 four derived roots chained after node 1; for           *)
(* detail_level > 4 a projection node i+6 for each i in range(6).          *)
(***************************************************************************)
DynkinBaseOps ==
    << NodeOp(0, [pos |-> <<Half(0), Half(0), Half(0)>>, type |-> "simple_root"]),
       NodeOp(1, [pos |-> <<Half(2), Half(0), Half(0)>>, type |-> "simple_root"]),
       EdgeOp(0, 1, [weight |-> Weight(3, 1), type |-> "triple_edge"]) >>

\* a plausible slip: every derived root hung on node 1 instead of chained
DynkinDerivedOpsStar ==
    << NodeOp(2, [pos |-> <<Half(3), Half(1), Half(0)>>, type |-> "derived_root"]),
       NodeOp(3, [pos |-> <<Half(4), Half(0), Half(0)>>, type |-> "derived_root"]),
       NodeOp(4, [pos |-> <<Half(5), Half(1), Half(0)>>, type |-> "derived_root"]),
       NodeOp(5, [pos |-> <<Half(6), Half(0), Half(0)>>, type |-> "derived_root"]),
       EdgeOp(1, 2, [weight |-> Weight(1, 1), type |-> "derivation"]),
       EdgeOp(1, 3, [weight |-> Weight(1, 1), type |-> "derivation"]),
       EdgeOp(1, 4, [weight |-> Weight(1, 1), type |-> "derivation"]),
       EdgeOp(1, 5, [weight |-> Weight(1, 1), type |-> "derivation"]) >>

DynkinDerivedOps ==
    << NodeOp(2, [pos |-> <<Half(3), Half(1), Half(0)>>, type |-> "derived_root"]),
       NodeOp(3, [pos |-> <<Half(4), Half(0), Half(0)>>, type |-> "derived_root"]),
       NodeOp(4, [pos |-> <<Half(5), Half(1), Half(0)>>, type |-> "derived_root"]),
       NodeOp(5, [pos |-> <<Half(6), Half(0), Half(0)>>, type |-> "derived_root"]),
       EdgeOp(1, 2, [weight |-> Weight(1, 1), type |-> "derivation"]),
       EdgeOp(2, 3, [weight |-> Weight(1, 1), type |-> "derivation"]),
       EdgeOp(3, 4, [weight |-> Weight(1, 1), type |-> "derivation"]),
       EdgeOp(4, 5, [weight |-> Weight(1, 1), type |-> "derivation"]) >>

ProjectionCount == 6

\* for i in range(6): pos = G.nodes[i]['pos'], then node i+6 above it and
\* the edge i -- i+6.  The loop reads the nodes 0..5 only and writes the
\* nodes 6..11 only, so every read sees the graph g the loop started with.
DynkinProjectionOps(g) ==
    Concat([idx \in 1..ProjectionCount |->
        LET i == idx - 1
            pos == g.nodes[i].pos
            new_pos == <<pos[1], pos[2], Half(1)>>
        IN  << NodeOp(i + 6, [pos |-> new_pos, type |-> "projection"]),
               EdgeOp(i, i + 6, [weight |-> Weight(1, 2), type |-> "projection"]) >>])

(***************************************************************************)
(* create_g2_symmetry_graph(symmetry_type, detail_level)                   *)
(***************************************************************************)
create_g2_symmetry_graph(type, detail) ==
    LET G0 == FreshGraph
    IN  IF type = "Root System"
            THEN Apply(G0, RootNodeOps \o RootEdgeOps(detail))
        ELSE IF type = "Weyl Group"
            THEN Apply(G0, WeylNodeOps \o WeylEdgeOps(detail))
        ELSE IF type = "Dynkin Diagram"
            THEN LET base == Apply(G0, DynkinBaseOps)
                     derived == IF detail > 2 THEN Apply(base, DynkinDerivedOps)
                                ELSE base
                 IN  IF detail > 4 THEN Apply(derived, DynkinProjectionOps(derived))
                     ELSE derived
        ELSE G0

(***************************************************************************)
(* Coordinates of the fractal points.  A coordinate is <<a, b, c, e>> and  *)
(* stands for (a + b*sqrt(2) + c*sqrt(3) + e*sqrt(6)) / FUnit.  The base   *)
(* coordinates are multiples of 1/4; a depth d multiplies by 0.5^d, by 0.5 *)
(* once more in Combined mode, and a rotation by the halves of 1, sqrt(2)  *)
(* and sqrt(3); FUnit is the power of two that keeps every such product an *)
(* integer up to the depth DepthLimit.                                     *)
(***************************************************************************)
FUnit == 4 * Pow(2, (DepthLimit * (DepthLimit + 5)) \div 2)

FReal(num, den) == <<(num * FUnit) \div den, 0, 0, 0>>      \* num / den
FAdd(x, y) == [c \in 1..4 |-> x[c] + y[c]]
FNeg(x) == [c \in 1..4 |-> -x[c]]
FHalve(x, k) == [c \in 1..4 |-> x[c] \div Pow(2, k)]          \* x * 0.5^k
FTimesSqrt2(x) == <<2 * x[2], x[1], 2 * x[4], x[3]>>
FTimesSqrt3(x) == <<3 * x[3], 3 * x[4], x[1], x[2]>>

Abs(n) == IF n < 0 THEN -n ELSE n

(***************************************************************************)
(* The base points: dimension == 2 lays row n on a line, every other       *)
(* dimension adds y = n/4 - abs(k - n/2)/2 and caps a row at 50 points.    *)
(***************************************************************************)
\* a plausible slip: z = n, the rows rising instead of descending
BasePointUpward(dim, n, k) ==
    IF dim = 2
        THEN <<FReal(2 * k - n, 2), FReal(0, 1), FReal(n, 1), comb(n, k)>>
        ELSE <<FReal(2 * k - n, 2), FReal(n - Abs(2 * k - n), 4), FReal(n, 1),
               comb(n, k)>>

BasePoint(dim, n, k) ==
    IF dim = 2
        THEN <<FReal(2 * k - n, 2), FReal(0, 1), FReal(-n, 1), comb(n, k)>>
        ELSE <<FReal(2 * k - n, 2), FReal(n - Abs(2 * k - n), 4), FReal(-n, 1),
               comb(n, k)>>

BaseRow(dim, n) ==
    [idx \in 1..(IF dim = 2 THEN n + 1 ELSE Min(n + 1, RowPointCap)) |->
        BasePoint(dim, n, idx - 1)]

BasePoints(rows, dim) == Concat([idx \in 1..rows |-> BaseRow(dim, idx - 1)])

(***************************************************************************)
(* The transforms: rotations by pi/6 in the xy plane, pi/4 in the yz plane *)
(* and pi/3 in the xz plane, then the reflections of x, y and z.           *)
(***************************************************************************)
CosPi6(x) == FHalve(FTimesSqrt3(x), 1)
SinPi6(x) == FHalve(x, 1)
CosPi4(x) == FHalve(FTimesSqrt2(x), 1)
SinPi4(x) == FHalve(FTimesSqrt2(x), 1)
CosPi3(x) == FHalve(x, 1)
SinPi3(x) == FHalve(FTimesSqrt3(x), 1)

Transforms(x, y, z) ==
    << <<FAdd(CosPi6(x), FNeg(SinPi6(y))), FAdd(SinPi6(x), CosPi6(y)), z>>,
       <<x, FAdd(CosPi4(y), FNeg(SinPi4(z))), FAdd(SinPi4(y), CosPi4(z))>>,
       <<FAdd(CosPi3(x), FNeg(SinPi3(z))), y, FAdd(SinPi3(x), CosPi3(z))>>,
       <<FNeg(x), y, z>>,
       <<x, FNeg(y), z>>,
       <<x, y, FNeg(z)>> >>

GaloisTransformCount == 6
CombinedTransformCount == 2

(***************************************************************************)
(* The new points of one depth d, in the order the loops append them.      *)
(***************************************************************************)
\* Pascal-based: for every i with i % 3 == 0 and every j a copy of points[j]
\* scaled by 0.5^d at points[i], with the value (val * val2) % 1000
PascalStride == 3
PascalModulus == 1000

\* a plausible slip: the product kept without the modulo
PascalSpawnNoModulo(p, q, dd) ==
    <<FAdd(p[1], FHalve(q[1], dd)), FAdd(p[2], FHalve(q[2], dd)),
      FAdd(p[3], FHalve(q[3], dd)), p[4] * q[4]>>

PascalSpawn(p, q, dd) ==
    <<FAdd(p[1], FHalve(q[1], dd)), FAdd(p[2], FHalve(q[2], dd)),
      FAdd(p[3], FHalve(q[3], dd)), (p[4] * q[4]) % PascalModulus>>

\* a plausible slip: the i % 3 filter left out
PascalNewPointsUnfiltered(pts, dd) ==
    Concat([ii \in 1..Len(pts) |->
        [jj \in 1..Len(pts) |-> PascalSpawn(pts[ii], pts[jj], dd)]])

PascalNewPoints(pts, dd) ==
    Concat([ii \in 1..Len(pts) |->
        IF (ii - 1) % PascalStride = 0
            THEN [jj \in 1..Len(pts) |-> PascalSpawn(pts[ii], pts[jj], dd)]
            ELSE <<>>])

\* Galois-transformed: every point, every transform, the value carried over
TransformSpawn(p, t, halvings) ==
    LET image == Transforms(p[1], p[2], p[3])[t]
    IN  <<FAdd(p[1], FHalve(image[1], halvings)),
          FAdd(p[2], FHalve(image[2], halvings)),
          FAdd(p[3], FHalve(image[3], halvings)), p[4]>>

\* a plausible slip: the i % 3 filter of the Pascal-based loop copied over
GaloisNewPointsFiltered(pts, dd) ==
    Concat([ii \in 1..Len(pts) |->
        IF (ii - 1) % PascalStride = 0
            THEN [t \in 1..GaloisTransformCount |-> TransformSpawn(pts[ii], t, dd)]
            ELSE <<>>])

GaloisNewPoints(pts, dd) ==
    Concat([ii \in 1..Len(pts) |->
        [t \in 1..GaloisTransformCount |-> TransformSpawn(pts[ii], t, dd)]])

\* Combined: for every i with i % (4 - d) == 0 the copies of points[:10]
\* carrying the value of points[i], then the first two transforms at
\* scale * 0.5
CombinedStrideBase == 4
CombinedSlice == 10

CombinedCopy(p, q, dd) ==
    <<FAdd(p[1], FHalve(q[1], dd)), FAdd(p[2], FHalve(q[2], dd)),
      FAdd(p[3], FHalve(q[3], dd)), p[4]>>

CombinedNewPoints(pts, dd) ==
    Concat([ii \in 1..Len(pts) |->
        IF (ii - 1) % (CombinedStrideBase - dd) = 0
            THEN [jj \in 1..Min(CombinedSlice, Len(pts)) |->
                     CombinedCopy(pts[ii], pts[jj], dd)]
                 \o [t \in 1..CombinedTransformCount |->
                     TransformSpawn(pts[ii], t, dd + 1)]
            ELSE <<>>])

\* all_points.extend(new_points)
\* a plausible slip: all_points rebound to the new points
ExtendReplacing(all, new) == new

\* a plausible slip: the new points inserted in front of the list
ExtendPrepending(all, new) == new \o all

Extend(all, new) == all \o new

\* a plausible slip: a fixed selection, as a generator seeded per call draws
SamplesFixed(population, k) == {SubSeq(population, 1, k)}

\* random.sample(population, k): k elements at distinct positions of the
\* population, in any order
Samples(population, k) ==
    {[idx \in 1..k |-> population[f[idx]]] :
        f \in {g \in [1..k -> 1..Len(population)] :
                 \A m, n \in 1..k : m # n => g[m] # g[n]}}

\* log_val = np.log1p(val) if val > 0 else 0; the 0 is ln(1)
FractalLog(val) == IF val > 0 THEN log1p(val) ELSE [ln |-> 1]

FormatPoint(p) == <<p[1], p[2], p[3], FractalLog(p[4]), p[4]>>

(***************************************************************************)
(* generate_fractal_recursion(max_rows, dimension, depth, fractal_type):   *)
(* the base points, one step per iteration of the depth loop of the        *)
(* selected type, then the formatted list.                                 *)
(***************************************************************************)
FractalIdle ==
    /\ fractal_type = DefaultFractalType
    /\ depth = DefaultDepth
    /\ fpc = "idle"
    /\ d = 0
    /\ points = <<>>
    /\ all_points = <<>>
    /\ fractal_data = <<>>

\* no pass of the spawning loop is followed, no sizes are followed
SpawnIdle ==
    /\ spawn_p = <<>>
    /\ spawn_q = <<>>
    /\ spawned = <<>>

UtilIdle ==
    /\ mc_n = 0
    /\ k_list = <<>>
    /\ coefficient = <<>>

StructIdle ==
    /\ dirs = {}
    /\ files = {}
    /\ gpc = "idle"
    /\ folder_idx = 0
    /\ all_dirs = <<>>
    /\ file_idx = 0
    /\ failed = {}
    /\ run = "none"
    /\ first_run = <<>>

SizeIdle ==
    /\ n_points = 0
    /\ n_all = 0

NotFractal ==
    UNCHANGED <<max_rows, dimension, called, raised, pascalVars, graphVars,
                spawnVars, sizeVars, utilVars, structVars>>

GenerateBase ==
    /\ fpc = "base"
    /\ points' = BasePoints(max_rows, dimension)
    /\ all_points' = Extend(<<>>, points')
    /\ d' = 1
    /\ fpc' = "loop"
    /\ UNCHANGED <<fractal_type, depth, fractal_data>>
    /\ NotFractal

\* a plausible slip: the next active set sampled from the accumulated list
EndIterationFromAll(new_points, cap) ==
    /\ all_points' = Extend(all_points, new_points)
    /\ points' \in Samples(all_points', Min(Len(new_points), cap))
    /\ d' = d + 1
    /\ UNCHANGED <<fractal_type, depth, fpc, fractal_data>>
    /\ NotFractal

\* a plausible slip: only the sampled points kept in the accumulated list
EndIterationSampled(new_points, cap) ==
    /\ points' \in Samples(new_points, Min(Len(new_points), cap))
    /\ all_points' = Extend(all_points, points')
    /\ d' = d + 1
    /\ UNCHANGED <<fractal_type, depth, fpc, fractal_data>>
    /\ NotFractal

\* the tail of an iteration: extend all_points, resample the active set
EndIteration(new_points, cap) ==
    /\ all_points' = Extend(all_points, new_points)
    /\ points' \in Samples(new_points, Min(Len(new_points), cap))
    /\ d' = d + 1
    /\ UNCHANGED <<fractal_type, depth, fpc, fractal_data>>
    /\ NotFractal

PascalDepth ==
    /\ fpc = "loop"
    /\ fractal_type = "Pascal-based"
    /\ d <= depth
    /\ EndIteration(PascalNewPoints(points, d), SampleCap)

GaloisDepth ==
    /\ fpc = "loop"
    /\ fractal_type = "Galois-transformed"
    /\ d <= depth
    /\ EndIteration(GaloisNewPoints(points, d), SampleCap)

\* i % (4 - d) raises ZeroDivisionError at d = 4 as soon as there is a point
CombinedDepth ==
    /\ fpc = "loop"
    /\ fractal_type = "Combined"
    /\ d <= depth
    /\ IF d = CombinedStrideBase /\ points # <<>>
         THEN /\ fpc' = "raised"
              /\ raised' = "ZeroDivisionError"
              /\ UNCHANGED <<fractal_type, depth, d, points, all_points, fractal_data>>
              /\ UNCHANGED <<max_rows, dimension, called, pascalVars, graphVars,
                             spawnVars, sizeVars, utilVars, structVars>>
         ELSE EndIteration(CombinedNewPoints(points, d), CombinedCap)

FormatResult ==
    /\ fpc = "loop"
    /\ d > depth \/ fractal_type \notin FractalTypes
    /\ fractal_data' = [idx \in 1..Len(all_points) |-> FormatPoint(all_points[idx])]
    /\ fpc' = "returned"
    /\ called' = called \cup {"generate_fractal_recursion"}
    /\ UNCHANGED <<fractal_type, depth, d, points, all_points>>
    /\ UNCHANGED <<max_rows, dimension, raised, pascalVars, graphVars,
                   spawnVars, sizeVars, utilVars, structVars>>

InitFractal ==
    /\ max_rows \in 1..MaxFractalRows
    /\ dimension \in Dimensions
    /\ called = {}
    /\ raised = "none"
    /\ triangle = <<>>
    /\ pascal_3d = <<>>
    /\ symmetry_type = DefaultSymmetryType
    /\ detail_level = DefaultDetail
    /\ G = NxGraph
    /\ earlier = <<>>
    /\ fractal_type \in FractalTypes
    /\ depth \in 1..MaxDepth
    /\ fpc = "base"
    /\ d = 0
    /\ points = <<>>
    /\ all_points = <<>>
    /\ fractal_data = <<>>
    /\ SpawnIdle
    /\ SizeIdle
    /\ UtilIdle
    /\ StructIdle

NextFractal ==
    \/ GenerateBase
    \/ PascalDepth
    \/ GaloisDepth
    \/ CombinedDepth
    \/ FormatResult

SpecFractal == InitFractal /\ [][NextFractal]_vars

(***************************************************************************)
(* The calls.  The parameters are drawn once; each generator is a pure     *)
(* function of them and its call stores the returned value.                *)
(* create_pascal_3d divides by rows (theta_step = 2*pi/rows) in the branch *)
(* dimension >= 4, so rows = 0 raises ZeroDivisionError there.             *)
(***************************************************************************)
InitPascal ==
    /\ max_rows \in 0..MaxRows
    /\ dimension \in Dimensions
    /\ called = {}
    /\ raised = "none"
    /\ triangle = <<>>
    /\ pascal_3d = <<>>
    /\ symmetry_type = DefaultSymmetryType
    /\ detail_level = DefaultDetail
    /\ G = NxGraph
    /\ earlier = <<>>
    /\ FractalIdle
    /\ SpawnIdle
    /\ SizeIdle
    /\ UtilIdle
    /\ StructIdle

CallGeneratePascalTriangle ==
    /\ "generate_pascal_triangle" \notin called
    /\ triangle' = generate_pascal_triangle(max_rows)
    /\ called' = called \cup {"generate_pascal_triangle"}
    /\ raised' = "none"
    /\ UNCHANGED <<max_rows, dimension, pascal_3d, graphVars, fractalVars,
                   spawnVars, sizeVars, utilVars, structVars>>

CallCreatePascal3d ==
    /\ "create_pascal_3d" \notin called
    /\ called' = called \cup {"create_pascal_3d"}
    /\ IF dimension >= 4 /\ max_rows = 0
         THEN /\ raised' = "ZeroDivisionError"
              /\ UNCHANGED pascal_3d
         ELSE /\ raised' = "none"
              /\ pascal_3d' = create_pascal_3d(max_rows, dimension)
    /\ UNCHANGED <<max_rows, dimension, triangle, graphVars, fractalVars,
                   spawnVars, sizeVars, utilVars, structVars>>

NextPascal == CallGeneratePascalTriangle \/ CallCreatePascal3d

SpecPascal == InitPascal /\ [][NextPascal]_vars

(***************************************************************************)
(* The graph calls: any sequence of calls of create_g2_symmetry_graph, each *)
(* with any symmetry type and detail level of the select box and slider.   *)
(***************************************************************************)
InitGraph ==
    /\ max_rows = DefaultRows
    /\ dimension = DefaultDimension
    /\ called = {}
    /\ raised = "none"
    /\ triangle = <<>>
    /\ pascal_3d = <<>>
    /\ symmetry_type = DefaultSymmetryType
    /\ detail_level = DefaultDetail
    /\ G = NxGraph
    /\ earlier = <<>>
    /\ FractalIdle
    /\ SpawnIdle
    /\ SizeIdle
    /\ UtilIdle
    /\ StructIdle

CallCreateG2SymmetryGraph ==
    \E type \in SymmetryTypes, detail \in DetailLevels :
        /\ symmetry_type' = type
        /\ detail_level' = detail
        /\ G' = create_g2_symmetry_graph(type, detail)
        /\ earlier' =
              IF earlier = <<>>
                  THEN <<[symmetry_type |-> type, detail_level |-> detail,
                          graph |-> G', other_calls |-> FALSE]>>
              ELSE IF type = earlier[1].symmetry_type /\ detail = earlier[1].detail_level
                  THEN earlier
              ELSE <<[earlier[1] EXCEPT !.other_calls = TRUE]>>
        /\ called' = called \cup {"create_g2_symmetry_graph"}
        /\ raised' = "none"
        /\ UNCHANGED <<max_rows, dimension, pascalVars, fractalVars,
                       spawnVars, sizeVars, utilVars, structVars>>

NextGraph == CallCreateG2SymmetryGraph

SpecGraph == InitGraph /\ [][NextGraph]_vars

(***************************************************************************)
(* The calls with one iteration and with two: every depth up to the one    *)
(* the depth slider starts with.                                           *)
(***************************************************************************)
InitShallow ==
    /\ max_rows \in 1..MaxFractalRows
    /\ dimension \in Dimensions
    /\ called = {}
    /\ raised = "none"
    /\ triangle = <<>>
    /\ pascal_3d = <<>>
    /\ symmetry_type = DefaultSymmetryType
    /\ detail_level = DefaultDetail
    /\ G = NxGraph
    /\ earlier = <<>>
    /\ fractal_type \in FractalTypes
    /\ depth \in 1..DefaultDepth
    /\ fpc = "base"
    /\ d = 0
    /\ points = <<>>
    /\ all_points = <<>>
    /\ fractal_data = <<>>
    /\ SpawnIdle
    /\ SizeIdle
    /\ UtilIdle
    /\ StructIdle

SpecShallow == InitShallow /\ [][NextFractal]_vars

(***************************************************************************)
(* The calls at the depth the depth slider starts with: two iterations, so *)
(* the sample drawn after the first decides what the second spawns.        *)
(***************************************************************************)
InitDefaultDepth ==
    /\ max_rows \in 1..MaxFractalRows
    /\ dimension \in Dimensions
    /\ called = {}
    /\ raised = "none"
    /\ triangle = <<>>
    /\ pascal_3d = <<>>
    /\ symmetry_type = DefaultSymmetryType
    /\ detail_level = DefaultDetail
    /\ G = NxGraph
    /\ earlier = <<>>
    /\ fractal_type \in FractalTypes
    /\ depth = DefaultDepth
    /\ fpc = "base"
    /\ d = 0
    /\ points = <<>>
    /\ all_points = <<>>
    /\ fractal_data = <<>>
    /\ SpawnIdle
    /\ SizeIdle
    /\ UtilIdle
    /\ StructIdle

SpecDefaultDepth == InitDefaultDepth /\ [][NextFractal]_vars

(***************************************************************************)
(* The Pascal-based calls at the depth the depth slider starts with, over  *)
(* base sets large enough for several positions i with i % 3 == 0.         *)
(***************************************************************************)
InitPascalBased ==
    /\ max_rows \in 1..MaxPascalBasedRows
    /\ dimension \in Dimensions
    /\ called = {}
    /\ raised = "none"
    /\ triangle = <<>>
    /\ pascal_3d = <<>>
    /\ symmetry_type = DefaultSymmetryType
    /\ detail_level = DefaultDetail
    /\ G = NxGraph
    /\ earlier = <<>>
    /\ fractal_type = "Pascal-based"
    /\ depth = DefaultDepth
    /\ fpc = "base"
    /\ d = 0
    /\ points = <<>>
    /\ all_points = <<>>
    /\ fractal_data = <<>>
    /\ SpawnIdle
    /\ SizeIdle
    /\ UtilIdle
    /\ StructIdle

NextPascalBased ==
    \/ GenerateBase
    \/ PascalDepth
    \/ FormatResult

SpecPascalBased == InitPascalBased /\ [][NextPascalBased]_vars

(***************************************************************************)
(* Single passes of the spawning loop of the Pascal-based mode.  At depth  *)
(* 1 the active set is the base set, so a pass takes the point at a        *)
(* position i with i % 3 == 0 and the point at any position j.  The sample *)
(* of the spawned points may put any of them first, and position 0 is      *)
(* paired with itself, so at the next depth a pass takes a spawned point   *)
(* twice.                                                                  *)
(***************************************************************************)
InitSpawn ==
    /\ max_rows \in 1..MaxSpawnRows
    /\ dimension \in Dimensions
    /\ called = {}
    /\ raised = "none"
    /\ triangle = <<>>
    /\ pascal_3d = <<>>
    /\ symmetry_type = DefaultSymmetryType
    /\ detail_level = DefaultDetail
    /\ G = NxGraph
    /\ earlier = <<>>
    /\ fractal_type = "Pascal-based"
    /\ depth = DefaultDepth
    /\ fpc = "pass"
    /\ d = 1
    /\ points = <<>>
    /\ all_points = <<>>
    /\ fractal_data = <<>>
    /\ LET base == BasePoints(max_rows, dimension)
       IN  \E ii \in 1..Len(base), jj \in 1..Len(base) :
               /\ (ii - 1) % PascalStride = 0
               /\ spawn_p = base[ii]
               /\ spawn_q = base[jj]
    /\ spawned = <<>>
    /\ SizeIdle
    /\ UtilIdle
    /\ StructIdle

SpawnPass ==
    /\ fpc = "pass"
    /\ spawned = <<>>
    /\ spawned' = <<PascalSpawn(spawn_p, spawn_q, d)>>
    /\ UNCHANGED <<max_rows, dimension, called, raised, pascalVars, graphVars,
                   fractalVars, spawn_p, spawn_q, sizeVars,
                   utilVars, structVars>>

SpawnDeeper ==
    /\ fpc = "pass"
    /\ spawned # <<>>
    /\ d < depth
    /\ d' = d + 1
    /\ spawn_p' = spawned[1]
    /\ spawn_q' = spawned[1]
    /\ spawned' = <<PascalSpawn(spawn_p', spawn_q', d')>>
    /\ UNCHANGED <<fractal_type, depth, fpc, points, all_points, fractal_data>>
    /\ UNCHANGED <<max_rows, dimension, called, raised, pascalVars, graphVars,
                   sizeVars, utilVars, structVars>>

NextSpawn == SpawnPass \/ SpawnDeeper

SpecSpawn == InitSpawn /\ [][NextSpawn]_vars

(***************************************************************************)
(* The sizes of the lists of generate_fractal_recursion.  The loops decide *)
(* how many points each depth appends without looking at the points, and   *)
(* random.sample(new_points, min(len(new_points), cap)) returns exactly    *)
(* min(len(new_points), cap) of them, so len(points) and len(all_points)   *)
(* are followed as numbers, over all the rows, dimensions, depths and      *)
(* modes the sliders and the select box offer, with the caps of the        *)
(* source.                                                                 *)
(***************************************************************************)
SampleLimit == 50            \* min(len(new_points), 50)
CombinedSampleLimit == 30    \* min(len(new_points), 30)

\* the base loops: n + 1 points for row n, min(n + 1, 50) when dimension != 2
BaseSize(rows, dim) ==
    SumSeq([idx \in 1..rows |-> IF dim = 2 THEN idx ELSE Min(idx, RowPointCap)])

\* one append for each i with i % 3 == 0 and each j
PascalNewSize(active) ==
    Cardinality({ii \in Range(active) : ii % PascalStride = 0}) * active

\* one append for each point and each transform
GaloisNewSize(active) == active * GaloisTransformCount

\* a plausible slip: the stride growing with the depth, i % (d + 1) == 0
CombinedNewSizeSparser(active, dd) ==
    Cardinality({ii \in Range(active) : ii % (dd + 1) = 0})
        * (Min(CombinedSlice, active) + CombinedTransformCount)

\* for each i with i % (4 - d) == 0: len(points[:10]) appends, then one for
\* each of the two transforms
CombinedNewSize(active, dd) ==
    Cardinality({ii \in Range(active) : ii % (CombinedStrideBase - dd) = 0})
        * (Min(CombinedSlice, active) + CombinedTransformCount)

NotSize ==
    UNCHANGED <<max_rows, dimension, pascalVars, graphVars, spawnVars,
                fractal_type, depth, points, all_points, fractal_data,
                utilVars, structVars>>

InitSize ==
    /\ max_rows \in MinRows..MaxSliderRows
    /\ dimension \in Dimensions
    /\ called = {}
    /\ raised = "none"
    /\ triangle = <<>>
    /\ pascal_3d = <<>>
    /\ symmetry_type = DefaultSymmetryType
    /\ detail_level = DefaultDetail
    /\ G = NxGraph
    /\ earlier = <<>>
    /\ fractal_type \in FractalTypes
    /\ depth \in 1..DepthLimit
    /\ fpc = "base"
    /\ d = 0
    /\ points = <<>>
    /\ all_points = <<>>
    /\ fractal_data = <<>>
    /\ SpawnIdle
    /\ SizeIdle
    /\ UtilIdle
    /\ StructIdle

SizeBase ==
    /\ fpc = "base"
    /\ n_points' = BaseSize(max_rows, dimension)
    /\ n_all' = n_points'
    /\ d' = 1
    /\ fpc' = "loop"
    /\ UNCHANGED <<called, raised>>
    /\ NotSize

SizeEndIteration(new_size, cap) ==
    /\ n_all' = n_all + new_size
    /\ n_points' = Min(new_size, cap)
    /\ d' = d + 1
    /\ UNCHANGED <<called, raised, fpc>>
    /\ NotSize

SizePascalDepth ==
    /\ fpc = "loop"
    /\ fractal_type = "Pascal-based"
    /\ d <= depth
    /\ SizeEndIteration(PascalNewSize(n_points), SampleLimit)

SizeGaloisDepth ==
    /\ fpc = "loop"
    /\ fractal_type = "Galois-transformed"
    /\ d <= depth
    /\ SizeEndIteration(GaloisNewSize(n_points), SampleLimit)

\* i % (4 - d) raises ZeroDivisionError at d = 4 as soon as there is a point
SizeCombinedDepth ==
    /\ fpc = "loop"
    /\ fractal_type = "Combined"
    /\ d <= depth
    /\ IF d = CombinedStrideBase /\ n_points > 0
         THEN /\ fpc' = "raised"
              /\ raised' = "ZeroDivisionError"
              /\ UNCHANGED <<called, d, sizeVars>>
              /\ NotSize
         ELSE SizeEndIteration(CombinedNewSize(n_points, d), CombinedSampleLimit)

SizeReturn ==
    /\ fpc = "loop"
    /\ d > depth \/ fractal_type \notin FractalTypes
    /\ fpc' = "returned"
    /\ called' = called \cup {"generate_fractal_recursion"}
    /\ UNCHANGED <<raised, d, sizeVars>>
    /\ NotSize

NextSize ==
    \/ SizeBase
    \/ SizePascalDepth
    \/ SizeGaloisDepth
    \/ SizeCombinedDepth
    \/ SizeReturn

SpecSize == InitSize /\ [][NextSize]_vars

(***************************************************************************)
(* Calls with arguments the sliders and select boxes do not offer: fewer   *)
(* than 5 rows, depth 0, a fractal type or a symmetry type that is none of *)
(* the three names.  Neither function inspects its arguments beyond the    *)
(* if / elif chains, so an unknown name skips every branch.                *)
(***************************************************************************)
UnknownType == "Unknown"

InitOutside ==
    /\ max_rows \in 0..MaxFractalRows
    /\ dimension \in Dimensions
    /\ called = {}
    /\ raised = "none"
    /\ triangle = <<>>
    /\ pascal_3d = <<>>
    /\ symmetry_type = DefaultSymmetryType
    /\ detail_level = DefaultDetail
    /\ G = NxGraph
    /\ earlier = <<>>
    /\ fractal_type \in FractalTypes \cup {UnknownType}
    /\ depth \in 0..MaxDepth
    /\ fpc = "base"
    /\ d = 0
    /\ points = <<>>
    /\ all_points = <<>>
    /\ fractal_data = <<>>
    /\ SpawnIdle
    /\ SizeIdle
    /\ UtilIdle
    /\ StructIdle

CallCreateG2SymmetryGraphUnknown ==
    /\ "create_g2_symmetry_graph" \notin called
    /\ \E detail \in DetailLevels :
        /\ symmetry_type' = UnknownType
        /\ detail_level' = detail
        /\ G' = create_g2_symmetry_graph(UnknownType, detail)
    /\ called' = called \cup {"create_g2_symmetry_graph"}
    /\ raised' = "none"
    /\ UNCHANGED <<max_rows, dimension, pascalVars, earlier, fractalVars,
                   spawnVars, sizeVars, utilVars, structVars>>

NextOutside == NextFractal \/ CallCreateG2SymmetryGraphUnknown

SpecOutside == InitOutside /\ [][NextOutside]_vars

\* the calls that have returned a value
(***************************************************************************)
(* compute_multinomial_coefficient(n, k_list) of utils.py: ValueError when *)
(* the k do not sum to n, else n! floor-divided by the product of the k!   *)
(* of the positive k.  The arguments are drawn from the naturals: lists of *)
(* at most MaxParts numbers up to MaxMultiN.                               *)
(***************************************************************************)
MaxMultiN == 5
MaxParts == 3

\* denominator = 1; for k in k_list: if k > 0: denominator *= factorial(k)
RECURSIVE Denominator(_)
Denominator(ks) ==
    IF ks = <<>> THEN 1
    ELSE (IF Head(ks) > 0 THEN factorial(Head(ks)) ELSE 1) * Denominator(Tail(ks))

\* a plausible slip: only a sum above n rejected
compute_multinomial_coefficientLoose(n, ks) ==
    IF SumSeq(ks) > n THEN [raised |-> "ValueError"]
    ELSE [raised |-> "none", value |-> factorial(n) \div Denominator(ks)]

compute_multinomial_coefficient(n, ks) ==
    IF SumSeq(ks) # n THEN [raised |-> "ValueError"]
    ELSE [raised |-> "none", value |-> factorial(n) \div Denominator(ks)]

KLists == UNION {[1..len -> 0..MaxMultiN] : len \in 0..MaxParts}

InitUtil ==
    /\ max_rows = DefaultRows
    /\ dimension = DefaultDimension
    /\ called = {}
    /\ raised = "none"
    /\ triangle = <<>>
    /\ pascal_3d = <<>>
    /\ symmetry_type = DefaultSymmetryType
    /\ detail_level = DefaultDetail
    /\ G = NxGraph
    /\ earlier = <<>>
    /\ FractalIdle
    /\ SpawnIdle
    /\ SizeIdle
    /\ StructIdle
    /\ mc_n \in 0..MaxMultiN
    /\ k_list \in KLists
    /\ coefficient = <<>>

CallComputeMultinomialCoefficient ==
    /\ "compute_multinomial_coefficient" \notin called
    /\ called' = called \cup {"compute_multinomial_coefficient"}
    /\ LET r == compute_multinomial_coefficient(mc_n, k_list)
       IN  /\ raised' = r.raised
           /\ coefficient' = IF r.raised = "none" THEN <<r.value>> ELSE <<>>
    /\ UNCHANGED <<mc_n, k_list>>
    /\ UNCHANGED <<max_rows, dimension, pascalVars, graphVars, fractalVars,
                   spawnVars, sizeVars, structVars>>

NextUtil == CallComputeMultinomialCoefficient

SpecUtil == InitUtil /\ [][NextUtil]_vars

(***************************************************************************)
(* RuliatrixStructureGenerator of create_structure.py.  A path is the      *)
(* sequence of its names below base_dir, <<>> is base_dir itself.  Every   *)
(* os.makedirs and every open(..., 'w') can fail (permissions, a full      *)
(* disk); MaxFailures bounds how many paths fail over the runs.  makedirs  *)
(* with exist_ok does not fail on a directory that is there, and a failed  *)
(* makedirs may have created some of the parents.                          *)
(***************************************************************************)
MaxFailures == 1

folders ==
    << <<"docs", "theory">>,
       <<"docs", "diagrams", "architecture_diagrams">>,
       <<"docs", "diagrams", "concept_maps">>,
       <<"docs", "examples">>,
       <<"src", "core", "pascal">>,
       <<"src", "core", "euler">>,
       <<"src", "core", "galois">>,
       <<"src", "core", "fractal">>,
       <<"src", "quantum">>,
       <<"src", "neural">>,
       <<"src", "applications">>,
       <<"src", "visualization">>,
       <<"tests", "core_tests">>,
       <<"tests", "quantum_tests">>,
       <<"tests", "neural_tests">>,
       <<"tests", "integration_tests">>,
       <<"examples", "quantum_examples">>,
       <<"examples", "neural_examples">>,
       <<"examples", "application_examples">>,
       <<"tools">>,
       <<"notebooks", "exploration">>,
       <<"notebooks", "tutorials">>,
       <<"notebooks", "demonstrations">>,
       <<".github", "workflows">>,
       <<".github", "ISSUE_TEMPLATE">> >>

src_base == <<"src">>
InitName == "__init__.py"

\* the files of create_boilerplate_files, in the order of the dictionary
BoilerplateFiles == <<"README.md", "LICENSE", "setup.py", "requirements.txt">>

\* a directory somebody created below src before the run
ForeignDir == <<"src", "legacy">>

\* the directories os.walk(src_base) can meet, top down: those of src, then
\* those of src/core.  The order in which one directory's entries are
\* listed is the file system's; the loop body of a directory does not
\* depend on the others, so this one order is followed.
WalkOrder ==
    << <<"src", "core">>, <<"src", "quantum">>, <<"src", "neural">>,
       <<"src", "applications">>, <<"src", "visualization">>, ForeignDir,
       <<"src", "core", "pascal">>, <<"src", "core", "euler">>,
       <<"src", "core", "galois">>, <<"src", "core", "fractal">> >>

\* the path and its parents up to j names
PrefixesUpTo(path, j) == {SubSeq(path, 1, len) : len \in 0..j}

MayFail == Cardinality(failed) < MaxFailures

NotStruct ==
    UNCHANGED <<max_rows, dimension, called, raised, pascalVars, graphVars,
                fractalVars, spawnVars, sizeVars, utilVars>>

InitStruct ==
    /\ max_rows = DefaultRows
    /\ dimension = DefaultDimension
    /\ called = {}
    /\ raised = "none"
    /\ triangle = <<>>
    /\ pascal_3d = <<>>
    /\ symmetry_type = DefaultSymmetryType
    /\ detail_level = DefaultDetail
    /\ G = NxGraph
    /\ earlier = <<>>
    /\ FractalIdle
    /\ SpawnIdle
    /\ SizeIdle
    /\ UtilIdle
    /\ dirs \in {{}, PrefixesUpTo(ForeignDir, Len(ForeignDir))}
    /\ files = {}
    /\ gpc = "start"
    /\ folder_idx = 0
    /\ all_dirs = <<>>
    /\ file_idx = 0
    /\ failed = {}
    /\ run = "first"
    /\ first_run = <<>>

\* generate(): os.makedirs(self.base_dir, exist_ok=True), outside any try
MakeBaseDir ==
    /\ gpc = "start"
    /\ \/ /\ dirs' = dirs \cup {<<>>}
          /\ gpc' = "folders"
          /\ folder_idx' = 1
          /\ UNCHANGED failed
       \/ /\ <<>> \notin dirs
          /\ MayFail
          /\ failed' = failed \cup {<<>>}
          /\ gpc' = "raised"
          /\ UNCHANGED <<dirs, folder_idx>>
    /\ UNCHANGED <<files, all_dirs, file_idx, run, first_run>>
    /\ NotStruct

\* a plausible slip: the makedirs of the loop outside the try
CreateFolderUnguarded ==
    /\ gpc = "folders"
    /\ LET folder_path == folders[folder_idx]
       IN  \/ /\ dirs' = dirs \cup PrefixesUpTo(folder_path, Len(folder_path))
              /\ folder_idx' = folder_idx + 1
              /\ gpc' = IF folder_idx = Len(folders) THEN "walk" ELSE "folders"
              /\ UNCHANGED failed
           \/ /\ folder_path \notin dirs
              /\ MayFail
              /\ \E j \in 0..(Len(folder_path) - 1) :
                    dirs' = dirs \cup PrefixesUpTo(folder_path, j)
              /\ failed' = failed \cup {folder_path}
              /\ gpc' = "raised"
              /\ UNCHANGED folder_idx
    /\ UNCHANGED <<files, all_dirs, file_idx, run, first_run>>
    /\ NotStruct

\* create_directory_structure: one pass of  for folder in self.folders
CreateFolder ==
    /\ gpc = "folders"
    /\ LET folder_path == folders[folder_idx]
       IN  \/ /\ dirs' = dirs \cup PrefixesUpTo(folder_path, Len(folder_path))
              /\ UNCHANGED failed
           \/ /\ folder_path \notin dirs
              /\ MayFail
              /\ \E j \in 0..(Len(folder_path) - 1) :
                    dirs' = dirs \cup PrefixesUpTo(folder_path, j)
              /\ failed' = failed \cup {folder_path}
    /\ folder_idx' = folder_idx + 1
    /\ gpc' = IF folder_idx = Len(folders) THEN "walk" ELSE "folders"
    /\ UNCHANGED <<files, all_dirs, file_idx, run, first_run>>
    /\ NotStruct

\* create_init_files: the directories os.walk finds below src, then src
WalkSrc ==
    /\ gpc = "walk"
    /\ all_dirs' = SelectSeq(WalkOrder, LAMBDA dd : dd \in dirs) \o <<src_base>>
    /\ gpc' = "inits"
    /\ UNCHANGED <<dirs, files, folder_idx, file_idx, failed, run, first_run>>
    /\ NotStruct

\* create_init_files: one pass of  for d in all_dirs ; the open fails when
\* the directory is not there
CreateInitFile ==
    /\ gpc = "inits"
    /\ LET init_file == Head(all_dirs) \o <<InitName>>
       IN  \/ /\ Head(all_dirs) \in dirs
              /\ files' = files \cup {init_file}
              /\ UNCHANGED failed
           \/ /\ Head(all_dirs) \notin dirs \/ MayFail
              /\ failed' = failed \cup {init_file}
              /\ UNCHANGED files
    /\ all_dirs' = Tail(all_dirs)
    /\ gpc' = IF Len(all_dirs) = 1 THEN "boilerplate" ELSE "inits"
    /\ file_idx' = IF Len(all_dirs) = 1 THEN 1 ELSE file_idx
    /\ UNCHANGED <<dirs, folder_idx, run, first_run>>
    /\ NotStruct

\* create_boilerplate_files: one pass of  for filename, content in files.items()
CreateBoilerplateFile ==
    /\ gpc = "boilerplate"
    /\ LET file_path == <<BoilerplateFiles[file_idx]>>
       IN  \/ /\ files' = files \cup {file_path}
              /\ UNCHANGED failed
           \/ /\ MayFail
              /\ failed' = failed \cup {file_path}
              /\ UNCHANGED files
    /\ file_idx' = file_idx + 1
    /\ gpc' = IF file_idx = Len(BoilerplateFiles) THEN "done" ELSE "boilerplate"
    /\ UNCHANGED <<dirs, folder_idx, all_dirs, run, first_run>>
    /\ NotStruct

\* the script is run once more on what the first run left
RunAgain ==
    /\ gpc \in {"done", "raised"}
    /\ run = "first"
    /\ run' = "second"
    /\ first_run' = <<[dirs |-> dirs, files |-> files,
                       clean |-> gpc = "done" /\ failed = {}]>>
    /\ gpc' = "start"
    /\ folder_idx' = 0
    /\ file_idx' = 0
    /\ UNCHANGED <<dirs, files, all_dirs, failed>>
    /\ NotStruct

NextStruct ==
    \/ MakeBaseDir
    \/ CreateFolder
    \/ WalkSrc
    \/ CreateInitFile
    \/ CreateBoilerplateFile
    \/ RunAgain

SpecStruct == InitStruct /\ [][NextStruct]_vars

ReturnedGraph == "create_g2_symmetry_graph" \in called
ReturnedTriangle == "generate_pascal_triangle" \in called
ReturnedPascal3d == "create_pascal_3d" \in called /\ raised # "ZeroDivisionError"

(***************************************************************************)
(* Claims about the coefficient rows.                                      *)
(***************************************************************************)
Row(t, n) == t[n + 1]          \* t[n]
At(row, k) == row[k + 1]       \* row[k]

\* C1: generate_pascal_triangle(R) returns exactly R rows; row n has n+1
\* entries, starts and ends with 1, and every inner entry is the sum of the
\* two entries above it; R = 5 yields [[1],[1,1],[1,2,1],[1,3,3,1],[1,4,6,4,1]].
C1_PascalRows ==
    ReturnedTriangle =>
        /\ Len(triangle) = max_rows
        /\ \A n \in Range(max_rows) :
              /\ Len(Row(triangle, n)) = n + 1
              /\ At(Row(triangle, n), 0) = 1
              /\ At(Row(triangle, n), n) = 1
              /\ \A k \in 1..(n - 1) :
                    At(Row(triangle, n), k) =
                        At(Row(triangle, n - 1), k - 1) + At(Row(triangle, n - 1), k)
        /\ (max_rows = 5 =>
              triangle = << <<1>>, <<1, 1>>, <<1, 2, 1>>, <<1, 3, 3, 1>>,
                            <<1, 4, 6, 4, 1>> >>)

C1_Witness ==
    /\ ReturnedTriangle
    /\ max_rows = 5
    /\ Row(triangle, 4) = <<1, 4, 6, 4, 1>>

\* C2: the entries of row n of the returned table sum to 2^n.
C2_RowSum ==
    ReturnedTriangle =>
        \A n \in Range(max_rows) : SumSeq(Row(triangle, n)) = Pow(2, n)

C2_Witness ==
    /\ ReturnedTriangle
    /\ max_rows >= 5
    /\ SumSeq(Row(triangle, 4)) = 16

(***************************************************************************)
(* Claims about the tetrahedron (dimension 3).  The index triple of a      *)
(* returned point is read back from its coordinates:                       *)
(* x = i - n/3, y = j - n/3, z = -n + k/3  give  3x + 3y + 9z = -8n.       *)
(***************************************************************************)
Triples(n) == {t \in (0..n) \X (0..n) \X (0..n) : t[1] + t[2] + t[3] = n}

IndexOf(p) ==
    LET n == (-(p[1][1] + p[2][1] + 3 * p[3][1])) \div 8
    IN  <<n, (p[1][1] + n) \div 3, (p[2][1] + n) \div 3, p[3][1] + 3 * n>>

\* the coordinates are exactly those of the index read back from them
WellFormed3(p) ==
    LET q == IndexOf(p)
    IN  /\ p[1] = Rat(3 * q[2] - q[1], 3)
        /\ p[2] = Rat(3 * q[3] - q[1], 3)
        /\ p[3] = Rat(-3 * q[1] + q[4], 3)

RowIndices(n) == {idx \in DOMAIN pascal_3d : IndexOf(pascal_3d[idx])[1] = n}

\* C3: in dimension 3, for every row n < R the generated index triples are
\* exactly the triples of non-negative integers summing to n, each generated
\* once, and the value at (i,j,k) is the multinomial coefficient n!/(i!j!k!).
C3_Compositions ==
    (ReturnedPascal3d /\ dimension = 3) =>
        /\ \A idx \in DOMAIN pascal_3d :
              LET p == pascal_3d[idx]
                  q == IndexOf(p)
              IN  /\ WellFormed3(p)
                  /\ q[1] \in Range(max_rows)
                  /\ <<q[2], q[3], q[4]>> \in Triples(q[1])
                  /\ p[5] * factorial(q[2]) * factorial(q[3]) * factorial(q[4])
                        = factorial(q[1])
        /\ \A n \in Range(max_rows) : \A t \in Triples(n) :
              Cardinality({idx \in DOMAIN pascal_3d :
                  IndexOf(pascal_3d[idx]) = <<n, t[1], t[2], t[3]>>}) = 1

C3_Witness ==
    /\ ReturnedPascal3d
    /\ dimension = 3
    /\ max_rows >= 4
    /\ \E idx \in DOMAIN pascal_3d :
          /\ IndexOf(pascal_3d[idx]) = <<3, 1, 1, 1>>
          /\ pascal_3d[idx][5] = 6

RECURSIVE SumValues(_)
SumValues(S) ==
    IF S = {} THEN 0
    ELSE LET idx == CHOOSE e \in S : TRUE
         IN  pascal_3d[idx][5] + SumValues(S \ {idx})

\* C4: in dimension 3 the values of the points of row n sum to 3^n.
C4_RowSum3 ==
    (ReturnedPascal3d /\ dimension = 3) =>
        \A n \in Range(max_rows) : SumValues(RowIndices(n)) = Pow(3, n)

C4_Witness ==
    /\ ReturnedPascal3d
    /\ dimension = 3
    /\ max_rows >= 4
    /\ SumValues(RowIndices(3)) = 27

\* C5 (as stated): with dimension = 3 and row count = 2 the mapper
\* generates exactly 1+2+3 = 6 points.
C5_SixPoints ==
    (ReturnedPascal3d /\ dimension = 3 /\ max_rows = 2) => Len(pascal_3d) = 6

\* C5 (amended): with dimension = 3 and row count = 2 the mapper generates
\* exactly 1+3 = 4 points, one for row 0 and three for row 1, each of value 1.
C5_FourPoints ==
    (ReturnedPascal3d /\ dimension = 3 /\ max_rows = 2) =>
        /\ Len(pascal_3d) = 4
        /\ Cardinality(RowIndices(0)) = 1
        /\ Cardinality(RowIndices(1)) = 3
        /\ \A idx \in DOMAIN pascal_3d : pascal_3d[idx][5] = 1

C5_Witness ==
    /\ ReturnedPascal3d
    /\ dimension = 3
    /\ max_rows = 2
    /\ Len(pascal_3d) = 4

(***************************************************************************)
(* Claims about the symmetry graph.  Two calls are compared through        *)
(* `earlier`, the record of the first call of the run.                     *)
(***************************************************************************)
First == earlier[1]

SameArguments ==
    /\ ReturnedGraph
    /\ earlier # <<>>
    /\ First.symmetry_type = symmetry_type
    /\ First.detail_level = detail_level

IsRootSystem == ReturnedGraph /\ symmetry_type = "Root System"

\* the root c1*alpha1 + c2*alpha2 = (c1, c2 - c1, -c2) / sqrt(2)
RootAt(c1, c2) == <<OverSqrt2(c1), OverSqrt2(c2 - c1), OverSqrt2(-c2)>>

PositiveCoefficients == << <<1, 0>>, <<0, 1>>, <<1, 1>>, <<2, 1>>, <<3, 1>>, <<3, 2>> >>

\* C7: Root System mode returns exactly 12 nodes at every detail level: the
\* positive roots a1, a2, a1+a2, 2a1+a2, 3a1+a2, 3a1+2a2 and their negatives,
\* all pairwise distinct.
C7_TwelveRoots ==
    IsRootSystem =>
        /\ DOMAIN G.nodes = 0..11
        /\ \A i \in 0..5 :
              LET c == PositiveCoefficients[i + 1]
              IN  /\ G.nodes[i].pos = RootAt(c[1], c[2])
                  /\ G.nodes[i + 6].pos = RootAt(-c[1], -c[2])
        /\ \A m, n \in DOMAIN G.nodes : m # n => G.nodes[m].pos # G.nodes[n].pos

C7_Witness ==
    /\ IsRootSystem
    /\ detail_level = 5
    /\ Cardinality(DOMAIN G.nodes) = 12
    /\ G.nodes[11].pos = RootAt(-3, -2)

\* twice the squared distance of the positions of two nodes of G
TwiceDistSq(i, j) == TwiceNormSq(VecSub(G.nodes[i].pos, G.nodes[j].pos))

\* the distance of the stored positions is below 2 + 0.5*detail: the exact
\* comparison, and the pairs at exact distance 3 whose stored coordinates
\* lie within 3 at detail 2
Near(i, j, detail) ==
    \/ 2 * TwiceDistSq(i, j) < (4 + detail) * (4 + detail)
    \/ TwiceDistSq(i, j) = 18 /\ detail = 2

\* C8: in Root System mode an edge joins the roots i < j exactly when their
\* distance is below 2 + 0.5*detail, and every edge present at a detail
\* level is present at every higher one, so the edge count never decreases.
C8_RootEdgesGrow ==
    /\ IsRootSystem =>
          \A i, j \in DOMAIN G.nodes :
              i < j => ({i, j} \in DOMAIN G.edges <=> Near(i, j, detail_level))
    /\ (IsRootSystem /\ earlier # <<>> /\ First.symmetry_type = "Root System"
                     /\ First.detail_level < detail_level) =>
          /\ DOMAIN First.graph.edges \subseteq DOMAIN G.edges
          /\ Cardinality(DOMAIN First.graph.edges) <= Cardinality(DOMAIN G.edges)

C8_Witness ==
    /\ IsRootSystem
    /\ earlier # <<>>
    /\ First.symmetry_type = "Root System"
    /\ First.detail_level = 1
    /\ detail_level = 2
    /\ Cardinality(DOMAIN First.graph.edges) = 37
    /\ Cardinality(DOMAIN G.edges) = 49
    /\ {1, 4} \in DOMAIN G.edges

IsWeylGroup == ReturnedGraph /\ symmetry_type = "Weyl Group"

\* C9: in Weyl Group mode the number of distinct undirected edges strictly
\* increases with each increment of the detail level from 1 to 5.
C9_WeylEdgesIncrease ==
    (IsWeylGroup /\ earlier # <<>> /\ First.symmetry_type = "Weyl Group"
                 /\ First.detail_level < detail_level) =>
        Cardinality(DOMAIN First.graph.edges) < Cardinality(DOMAIN G.edges)

C9_Witness ==
    /\ IsWeylGroup
    /\ earlier # <<>>
    /\ First.symmetry_type = "Weyl Group"
    /\ First.detail_level = 4
    /\ detail_level = 5
    /\ Cardinality(DOMAIN First.graph.edges) = 60
    /\ Cardinality(DOMAIN G.edges) = 66

(***************************************************************************)
(* Claims about the fractal generator.                                     *)
(***************************************************************************)
ReturnedFractal == fpc = "returned"

\* the number of base points of rows below 50: 1 + 2 + ... + rows
BaseCount == (max_rows * (max_rows + 1)) \div 2

C10_AtLeastBase ==
    /\ fpc \in {"loop", "returned"} => Len(all_points) >= BaseCount
    /\ ReturnedFractal => Len(fractal_data) >= BaseCount

C10_OnlyAppended ==
    /\ Len(all_points') >= Len(all_points)
    /\ SubSeq(all_points', 1, Len(all_points)) = all_points

\* C10: in every mode the returned list has at least as many points as the
\* base set, and the accumulated list never shrinks as the depth iterations
\* complete: points are only appended to it, never removed.
C10_Accumulates == [](C10_AtLeastBase) /\ [][C10_OnlyAppended]_vars

C10_Witness ==
    /\ ReturnedFractal
    /\ fractal_type = "Pascal-based"
    /\ max_rows = 2
    /\ depth = 1
    /\ Len(fractal_data) = 6
    /\ Len(fractal_data) > BaseCount

(***************************************************************************)
(* Claims about the fractal modes.                                         *)
(***************************************************************************)
\* C11: in Pascal-based mode every spawned point has an integer value in
\* 0..999, also when the values of the points it is spawned from exceed 999.
C11_SpawnedValueBounded ==
    spawned # <<>> => spawned[1][4] \in 0..(PascalModulus - 1)

C11_Witness ==
    /\ spawned # <<>>
    /\ d = 1
    /\ spawn_p[4] > PascalModulus - 1
    /\ spawn_q[4] > PascalModulus - 1
    /\ spawned[1][4] # spawn_p[4] * spawn_q[4]

\* C12: for every row count, dimension, depth and mode the sliders and the
\* select box offer, the call of the generator raises no error and runs on
\* to its return.
C12_NoError == raised = "none" /\ fpc # "raised"

\* C13: a generator called with a parameter outside its documented domain
\* (a row count outside 5..30, a depth outside 1..4, a fractal type or a
\* symmetry type that is none of the three names) fails with an error: it
\* does not return a result.
OutsideFractalDomain ==
    \/ max_rows \notin MinRows..MaxSliderRows
    \/ depth \notin 1..DepthLimit
    \/ fractal_type \notin FractalTypes

C13_FailsLoudly ==
    /\ OutsideFractalDomain => fpc # "returned"
    /\ ("create_g2_symmetry_graph" \in called /\ symmetry_type \notin SymmetryTypes)
           => raised # "none"

\* C14: for every row count, dimension, depth and mode the sliders and the
\* select box offer, the generator returns fewer than 10,000 points, also in
\* Pascal-based mode at 30 rows.
C14_Bounded == fpc = "returned" => n_all < 10000

\* what one depth of the mode spawns from the active set, and the mode's cap
NewPointsOf(type, pts, dd) ==
    IF type = "Pascal-based" THEN PascalNewPoints(pts, dd)
    ELSE IF type = "Galois-transformed" THEN GaloisNewPoints(pts, dd)
    ELSE CombinedNewPoints(pts, dd)

CapOf(type) == IF type = "Combined" THEN CombinedCap ELSE SampleCap

SamplesOf(type, new) == Samples(new, Min(Len(new), CapOf(type)))

\* the list a call is left with after the depths d and d + 1, when the
\* sample drawn after depth d is s
ListAfterNext(all, new, s) ==
    Extend(Extend(all, new), NewPointsOf(fractal_type, s, d + 1))

\* C15: two calls with identical arguments can return different lists:
\* whenever a depth that is not the last spawns two different points, the
\* unseeded sample has two outcomes that lead to different lists.
C15_CanDiffer ==
    (fpc = "loop" /\ d < depth) =>
        LET new == NewPointsOf(fractal_type, points, d)
        IN  (\E m, n \in 1..Len(new) : new[m] # new[n]) =>
                \E s1, s2 \in SamplesOf(fractal_type, new) :
                    ListAfterNext(all_points, new, s1) # ListAfterNext(all_points, new, s2)

C15_Witness ==
    /\ ReturnedFractal
    /\ depth = 2
    /\ LET base == BasePoints(max_rows, dimension)
           new == NewPointsOf(fractal_type, base, 1)
       IN  \E s \in SamplesOf(fractal_type, new) :
               all_points # Extend(Extend(base, new), NewPointsOf(fractal_type, s, 2))

(***************************************************************************)
(* Claims about the Dynkin Diagram and the Weyl Group constructions.       *)
(***************************************************************************)
IsDynkinDiagram == ReturnedGraph /\ symmetry_type = "Dynkin Diagram"

NodesOfType(type) == {n \in DOMAIN G.nodes : G.nodes[n].type = type}

TripleEdge == {{0, 1}}
ChainEdges == {{n, n + 1} : n \in 1..4}
ProjectionEdges == {{n, n + 6} : n \in 0..5}

\* C16: the Dynkin Diagram has the two simple roots joined by one edge of
\* weight 3 when detail <= 2; for detail > 2 also the four derived roots
\* chained 1-2-3-4-5 (6 nodes, 5 edges); for detail > 4 also a projection
\* node i+6 joined to i for each of the first six nodes (12 nodes, 11
\* edges), each read from a node that exists.
C16_DynkinTiers ==
    IsDynkinDiagram =>
        /\ NodesOfType("simple_root") = {0, 1}
        /\ G.edges[{0, 1}].weight = Weight(3, 1)
        /\ detail_level <= 2 =>
              /\ DOMAIN G.nodes = 0..1
              /\ DOMAIN G.edges = TripleEdge
        /\ (detail_level > 2 /\ detail_level <= 4) =>
              /\ DOMAIN G.nodes = 0..5
              /\ DOMAIN G.edges = TripleEdge \cup ChainEdges
        /\ detail_level > 2 => NodesOfType("derived_root") = 2..5
        /\ detail_level > 4 =>
              /\ DOMAIN G.nodes = 0..11
              /\ DOMAIN G.edges = TripleEdge \cup ChainEdges \cup ProjectionEdges
              /\ Cardinality(DOMAIN G.edges) = 11
              /\ NodesOfType("projection") = 6..11
              /\ \A n \in 0..5 :
                    /\ "pos" \in DOMAIN G.nodes[n]
                    /\ G.nodes[n + 6].pos
                          = <<G.nodes[n].pos[1], G.nodes[n].pos[2], Half(1)>>

C16_Witness ==
    /\ IsDynkinDiagram
    /\ detail_level = 5
    /\ Cardinality(DOMAIN G.nodes) = 12
    /\ Cardinality(DOMAIN G.edges) = 11
    /\ G.nodes[11].pos = <<Half(6), Half(0), Half(1)>>

\* { {i, (i+j) mod 12} : 0 <= i < 12, 1 <= j <= 1 + detail }
WeylEdgeSet(detail) ==
    {{n, (n + j) % WeylOrder} : n \in 0..(WeylOrder - 1), j \in 1..(1 + detail)}

GeneratorEdges == {{n, (n + 1) % WeylOrder} : n \in 0..(WeylOrder - 1)}

\* C17: in Weyl Group mode, at every detail level, the graph has 12 nodes,
\* its edges are exactly the pairs {i, (i+j) mod 12} with 1 <= j <= 1+detail,
\* the 12 offset-1 edges are tagged generator and every other edge relation.
C17_WeylEdges ==
    IsWeylGroup =>
        /\ DOMAIN G.nodes = 0..(WeylOrder - 1)
        /\ DOMAIN G.edges = WeylEdgeSet(detail_level)
        /\ Cardinality(GeneratorEdges) = 12
        /\ \A e \in DOMAIN G.edges :
              G.edges[e].type = IF e \in GeneratorEdges THEN "generator" ELSE "relation"

C17_Witness ==
    /\ IsWeylGroup
    /\ detail_level = 5
    /\ Cardinality(DOMAIN G.edges) = 66
    /\ G.edges[{11, 0}].type = "generator"
    /\ G.edges[{0, 6}].type = "relation"

(***************************************************************************)
(* Claims about the iterations of the depth loop.  A step of the loop is a *)
(* step that increments d; the points it spawned are those it appended.    *)
(***************************************************************************)
DepthStep == fpc = "loop" /\ d' = d + 1

SpawnedNow == SubSeq(all_points', Len(all_points) + 1, Len(all_points'))

\* ceil(a / 3)
CeilThird(a) == (a + 2) \div 3

\* the points spawned from the pairs (every third active point, point of
\* `second`), in the order of the loops
PairsSpawn(active, second, dd) ==
    [idx \in 1..(CeilThird(Len(active)) * Len(second)) |->
        PascalSpawn(active[3 * ((idx - 1) \div Len(second)) + 1],
                    second[((idx - 1) % Len(second)) + 1], dd)]

\* C18: in Pascal-based mode, at every depth, each new point is spawned from
\* a pair (selected active point, point of the original base set).
C18_PairsWithBase ==
    [][(DepthStep /\ fractal_type = "Pascal-based") =>
          SpawnedNow = PairsSpawn(points, BasePoints(max_rows, dimension), d)]_vars

\* C19: in Pascal-based mode only the active points at the positions 0, 3,
\* 6, ... spawn, each paired with every active point, so a depth with A
\* active points appends exactly ceil(A/3) * A new points, whatever the
\* sample drawn afterwards.
C19_EveryThird ==
    [][(DepthStep /\ fractal_type = "Pascal-based") =>
          /\ Len(SpawnedNow) = CeilThird(Len(points)) * Len(points)
          /\ SpawnedNow = PairsSpawn(points, points, d)]_vars

C19_Witness ==
    /\ fractal_type = "Pascal-based"
    /\ fpc = "loop"
    /\ d = 2
    /\ max_rows = 4
    /\ Len(all_points) = 10 + 4 * 10
    /\ all_points[10 + 11] = PascalSpawn(all_points[4], all_points[1], 1)

\* s takes its elements from distinct positions of pop, none of them in used
RECURSIVE IsSelection(_, _, _)
IsSelection(s, pop, used) ==
    \/ s = <<>>
    \/ \E m \in (1..Len(pop)) \ used :
          /\ pop[m] = Head(s)
          /\ IsSelection(Tail(s), pop, used \cup {m})

BaseValues ==
    UNION {LET row == BaseRow(dimension, n)
           IN  {row[idx][4] : idx \in DOMAIN row} : n \in 0..(max_rows - 1)}

C21_SixPerPoint ==
    (DepthStep /\ fractal_type = "Galois-transformed") =>
        /\ Len(SpawnedNow) = 6 * Len(points)
        /\ \A idx \in 1..Len(SpawnedNow) :
              SpawnedNow[idx][4] = points[((idx - 1) \div 6) + 1][4]

C21_BaseValuesOnly ==
    (fractal_type = "Galois-transformed" /\ fpc \in {"loop", "returned"}) =>
        /\ {all_points[idx][4] : idx \in 1..Len(all_points)} \subseteq BaseValues
        /\ {fractal_data[idx][5] : idx \in 1..Len(fractal_data)} \subseteq BaseValues

\* C21: in Galois-transformed mode every active point, without any filter,
\* spawns 6 points, one per transform, so a depth with A active points
\* appends 6*A points; each carries the value of its source point, so every
\* value of the output is the value of a base point.
C21_GaloisSpawn == [](C21_BaseValuesOnly) /\ [][C21_SixPerPoint]_vars

C21_Witness ==
    /\ ReturnedFractal
    /\ fractal_type = "Galois-transformed"
    /\ max_rows = 2
    /\ depth = 2
    /\ Len(fractal_data) = 3 + 6 * 3 + 6 * SampleCap
    /\ \E idx \in 1..Len(fractal_data) : fractal_data[idx][5] = 1

\* a depth of the Combined loop that ran to its end, in the size model
CombinedSizeStep ==
    /\ fractal_type = "Combined"
    /\ fpc = "loop"
    /\ fpc' = "loop"
    /\ d' = d + 1

\* ceil(a / b)
CeilDiv(a, b) == (a + b - 1) \div b

\* the number of positions 0 .. a-1 divisible by 4 - dd
SelectedCount(a, dd) == CeilDiv(a, CombinedStrideBase - dd)

\* the statement as the specification words it: the selection exists at
\* every depth up to 4 and its fraction of the active points never grows
C22_Sparser ==
    [][(CombinedSizeStep /\ d + 1 <= depth) =>
          /\ d + 1 < CombinedStrideBase
          /\ SelectedCount(n_points', d + 1) * n_points
                <= SelectedCount(n_points, d) * n_points']_vars

C22_Selected ==
    CombinedSizeStep =>
        /\ d < CombinedStrideBase
        /\ n_all' - n_all =
              SelectedCount(n_points, d)
                * (Min(CombinedSlice, n_points) + CombinedTransformCount)
        /\ (d + 1 <= depth /\ d + 1 < CombinedStrideBase) =>
              SelectedCount(n_points', d + 1) * n_points
                > SelectedCount(n_points, d) * n_points'

C22_FourthDepthRaises ==
    (fractal_type = "Combined" /\ fpc = "loop" /\ d = CombinedStrideBase
        /\ d <= depth) => (fpc' = "raised" /\ raised' = "ZeroDivisionError")

\* C22: in Combined mode the positions selected at depth d are those
\* divisible by 4 - d: a third of the active points at depth 1, half at
\* depth 2, all of them at depth 3, so the selected fraction grows with the
\* depth; at depth 4 the divisor is 0 and the selection raises.
C22_Denser == [][C22_Selected /\ C22_FourthDepthRaises]_vars

C22_Witness ==
    /\ fractal_type = "Combined"
    /\ fpc = "loop"
    /\ max_rows = 5
    /\ d = CombinedStrideBase
    /\ n_points = 30
    /\ n_all = 15 + 5 * 12 + 15 * 12 + 30 * 12

\* the points a Combined depth spawns when the composites are taken against
\* the first 10 points of `second`
CombinedSpawnWith(active, second, dd) ==
    Concat([ii \in 1..Len(active) |->
        IF (ii - 1) % (CombinedStrideBase - dd) = 0
            THEN [jj \in 1..Min(CombinedSlice, Len(second)) |->
                     CombinedCopy(active[ii], second[jj], dd)]
                 \o [t \in 1..CombinedTransformCount |->
                     TransformSpawn(active[ii], t, dd + 1)]
            ELSE <<>>])

\* C23: in Combined mode, at every depth, each selected active point spawns
\* one composite for each of the first 10 points of the original base set,
\* then one offset point for each of the 2 transforms at half scale:
\* min(10, |base|) + 2 points for each selected point.
C23_CompositesWithBase ==
    [][(DepthStep /\ fractal_type = "Combined") =>
          /\ SpawnedNow = CombinedSpawnWith(points, BasePoints(max_rows, dimension), d)
          /\ Len(SpawnedNow) =
                CeilDiv(Len(points), CombinedStrideBase - d)
                  * (Min(CombinedSlice, BaseCount) + CombinedTransformCount)]_vars

\* the state in which the generator has built its base and nothing else
BaseBuilt == fpc = "loop" /\ d = 1

\* a coordinate of the generator equals the rational num / den
RatEq(fx, rx) == fx[2] = 0 /\ fx[3] = 0 /\ fx[4] = 0 /\ fx[1] * rx[2] = rx[1] * FUnit

\* cos(pi * n / rows) for 0 <= n < rows is rational only at the angles 0,
\* pi/3, pi/2 and 2*pi/3 (Niven's theorem)
CosIsRational(phi) ==
    \/ phi[1] = 0
    \/ 2 * phi[1] = phi[2]
    \/ 3 * phi[1] = phi[2]
    \/ 3 * phi[1] = 2 * phi[2]

CosRational(phi) ==
    IF phi[1] = 0 THEN Rat(1, 1)
    ELSE IF 2 * phi[1] = phi[2] THEN Rat(0, 1)
    ELSE IF 3 * phi[1] = phi[2] THEN Rat(1, 2)
    ELSE Rat(-1, 2)

\* a rational coordinate of the generator equals r * cos(phi): never when the
\* cosine is irrational
SphereZEq(fz, pz) ==
    /\ CosIsRational(pz.cos_phi)
    /\ RatEq(fz, Rat(pz.r * CosRational(pz.cos_phi)[1], CosRational(pz.cos_phi)[2]))

\* point fp of the generator's base and point pp of the mapper's list have
\* the same position and value.  On the sphere only the z coordinate is
\* compared, which is necessary for equal positions.
SameBasePoint(dim, fp, pp) ==
    /\ fp[4] = pp[5]
    /\ IF dim >= 4
          THEN SphereZEq(fp[3], pp[3])
          ELSE RatEq(fp[1], pp[1]) /\ RatEq(fp[2], pp[2]) /\ RatEq(fp[3], pp[3])

SameBaseList(dim, fl, pl) ==
    /\ Len(fl) = Len(pl)
    /\ \A idx \in 1..Len(fl) : SameBasePoint(dim, fl[idx], pl[idx])

\* the statement as the specification words it: the base is the mapper's list
C24_BaseIsMapperOutput ==
    BaseBuilt => SameBaseList(dimension, points, create_pascal_3d(max_rows, dimension))

\* C24: the generator builds its own base.  For dimension 2 it is point for
\* point the list of create_pascal_3d (without the log value).  For every
\* other dimension it is, row by row, the points k < min(n+1, 50) at
\* x = k - n/2, y = n/4 - |k - n/2|/2, z = -n with value C(n,k): for
\* dimension 3 shorter than the tetrahedron as soon as there are 2 rows, for
\* dimension 4 and 5 as long as the sphere list and with the same values but
\* at other positions (the first point is at z = 0, not z = rows).
C24_OwnBase ==
    BaseBuilt =>
        LET mapped == create_pascal_3d(max_rows, dimension)
        IN  /\ points = BasePoints(max_rows, dimension)
            /\ dimension = 2 => SameBaseList(2, points, mapped)
            /\ (dimension = 3 /\ max_rows >= 2) => Len(points) < Len(mapped)
            /\ dimension >= 4 =>
                  /\ Len(points) = Len(mapped)
                  /\ \A idx \in 1..Len(points) : points[idx][4] = mapped[idx][5]
                  /\ ~SphereZEq(points[1][3], mapped[1][3])
                  /\ RatEq(points[1][3], Rat(0, 1))
                  /\ mapped[1][3] = [r |-> max_rows, cos_phi |-> Rat(0, max_rows)]

C24_Witness ==
    /\ BaseBuilt
    /\ dimension = 4
    /\ max_rows = 2
    /\ Len(points) = 3
    /\ Len(create_pascal_3d(max_rows, dimension)) = 3

\* name in attrs, for an attribute dictionary
HasAttr(attrs, name) == name \in DOMAIN attrs

NodesTagged ==
    \A n \in DOMAIN G.nodes :
        /\ HasAttr(G.nodes[n], "pos")
        /\ HasAttr(G.nodes[n], "type")
        /\ Len(G.nodes[n].pos) = 3

\* the statement as the specification words it: every edge has both attributes
C25_EdgesTaggedAndWeighted ==
    ReturnedGraph =>
        /\ NodesTagged
        /\ \A e \in DOMAIN G.edges :
              HasAttr(G.edges[e], "type") /\ HasAttr(G.edges[e], "weight")

\* C25: in every returned graph each node has a 3D position and a category
\* tag.  The edges of a Dynkin diagram have a category tag and a weight, the
\* edges of a root system a weight and no tag, the edges of a Weyl group a
\* tag and no weight.
C25_EdgeAttributesByMode ==
    ReturnedGraph =>
        /\ NodesTagged
        /\ DOMAIN G.edges # {}
        /\ \A e \in DOMAIN G.edges :
              DOMAIN G.edges[e] =
                  CASE symmetry_type = "Root System" -> {"weight"}
                    [] symmetry_type = "Weyl Group" -> {"type"}
                    [] symmetry_type = "Dynkin Diagram" -> {"type", "weight"}

C25_Witness ==
    /\ ReturnedGraph
    /\ symmetry_type = "Weyl Group"
    /\ \E e \in DOMAIN G.edges : ~HasAttr(G.edges[e], "weight")

\* the row and the index in the row of a point on the sphere, read off its
\* radius rows - n and its angle theta = point_idx * 2*pi/rows
SphereRow(p) == max_rows - p[3].r
SphereIdx(p) == p[1].cos_theta[1] \div 2

SphereRowIndices(n) == {idx \in DOMAIN pascal_3d : SphereRow(pascal_3d[idx]) = n}

\* C26: for dimension >= 4 create_pascal_3d generates for each row n < R
\* exactly min(n+1, 50) points, the points p = 0, 1, ... of the row in this
\* order, and the value of point p of row n is C(n,p); so the sequence of
\* values is the sequence of values of dimension 2.
C26_SphereValues ==
    (ReturnedPascal3d /\ dimension >= 4) =>
        /\ \A n \in Range(max_rows) :
              Cardinality(SphereRowIndices(n)) = Min(n + 1, RowPointCap)
        /\ \A idx \in DOMAIN pascal_3d :
              LET p == pascal_3d[idx]
                  n == SphereRow(p)
                  k == SphereIdx(p)
              IN  /\ n \in Range(max_rows)
                  /\ k \in 0..n
                  /\ idx = (n * (n + 1)) \div 2 + k + 1
                  /\ p[5] * factorial(k) * factorial(n - k) = factorial(n)
        /\ [idx \in DOMAIN pascal_3d |-> pascal_3d[idx][5]]
              = [idx \in DOMAIN create_pascal_3d(max_rows, 2) |->
                    create_pascal_3d(max_rows, 2)[idx][5]]

C26_Witness ==
    /\ ReturnedPascal3d
    /\ dimension = 5
    /\ max_rows = 6
    /\ Len(pascal_3d) = 21
    /\ pascal_3d[18][5] = 10

\* the number of points one depth of the mode spawns from `active` points
NewSizeOf(type, active, dd) ==
    IF type = "Pascal-based" THEN PascalNewSize(active)
    ELSE IF type = "Galois-transformed" THEN GaloisNewSize(active)
    ELSE CombinedNewSize(active, dd)

\* the number of points the depths dd .. last append, from `active` points
RECURSIVE SpawnedFrom(_, _, _, _)
SpawnedFrom(type, active, dd, last) ==
    IF dd > last THEN 0
    ELSE LET new == NewSizeOf(type, active, dd)
         IN  new + SpawnedFrom(type, Min(new, CapOf(type)), dd + 1, last)

LengthOf(rows, dim, last, type) ==
    BaseSize(rows, dim) + SpawnedFrom(type, BaseSize(rows, dim), 1, last)

\* the list a call with one iteration returns, whatever sample is drawn
ListOfDepthOne(rows, dim, type) ==
    LET base == BasePoints(rows, dim)
        all == Extend(base, NewPointsOf(type, base, 1))
    IN  [idx \in 1..Len(all) |-> FormatPoint(all[idx])]

\* C27: the number of points returned is a function of (rows, dimension,
\* depth, mode): whatever samples are drawn, the returned list has the
\* length these four give, and with depth 1 it is the same list in every run.
C27_LengthDetermined ==
    ReturnedFractal =>
        /\ Len(fractal_data) = LengthOf(max_rows, dimension, depth, fractal_type)
        /\ depth = 1 => fractal_data = ListOfDepthOne(max_rows, dimension, fractal_type)

C27_Witness ==
    /\ ReturnedFractal
    /\ fractal_type = "Combined"
    /\ max_rows = 2
    /\ depth = 2
    /\ Len(fractal_data) = 3 + 5 + 3
    /\ fractal_data[9] # fractal_data[4]

\* the row n and the index k of the base point at position idx of the list,
\* for rows below the cap: idx = n*(n+1)/2 + k + 1
RowOfPosition(idx) == CHOOSE n \in 0..idx : (n * (n + 1)) \div 2 < idx /\ idx <= ((n + 1) * (n + 2)) \div 2
IndexOfPosition(idx) == idx - 1 - (RowOfPosition(idx) * (RowOfPosition(idx) + 1)) \div 2

\* the returned list starts with the base points, row by row, k ascending
C28_BaseFirst ==
    ReturnedFractal =>
        \A idx \in 1..BaseCount :
            /\ fractal_data[idx][3] = FReal(-RowOfPosition(idx), 1)
            /\ fractal_data[idx][1] = FReal(2 * IndexOfPosition(idx) - RowOfPosition(idx), 2)
            /\ fractal_data[idx][5] = comb(RowOfPosition(idx), IndexOfPosition(idx))

\* a step leaves every point where it is in the list, with its position and
\* value; the first depth puts its points right behind the base points, a
\* later depth behind everything before it; the formatting keeps the order
C28_OrderKept ==
    /\ DepthStep =>
          /\ \A idx \in DOMAIN all_points : all_points'[idx] = all_points[idx]
          /\ d = 1 =>
                /\ Len(all_points) = BaseCount
                /\ SpawnedNow = NewPointsOf(fractal_type, BasePoints(max_rows, dimension), 1)
          /\ d > 1 => Len(all_points) > BaseCount /\ Len(SpawnedNow) > 0
    /\ (fpc = "loop" /\ fpc' = "returned") =>
          /\ Len(fractal_data') = Len(all_points)
          /\ \A idx \in DOMAIN all_points :
                /\ SubSeq(fractal_data'[idx], 1, 3) = SubSeq(all_points[idx], 1, 3)
                /\ fractal_data'[idx][5] = all_points[idx][4]

\* C28: the returned list begins with the base points in their generation
\* order (row ascending, then k ascending), followed by the points spawned
\* at depth 1, then those spawned at depth 2; once appended, a point keeps
\* its place in the list, its position and its value.
C28_GenerationOrder == [](C28_BaseFirst) /\ [][C28_OrderKept]_vars

C28_Witness ==
    /\ ReturnedFractal
    /\ fractal_type = "Pascal-based"
    /\ max_rows = 2
    /\ depth = 2
    /\ Len(fractal_data) = 7
    /\ fractal_data[2][3] = FReal(-1, 1)
    /\ fractal_data[5][3] = FReal(-1, 2)
    /\ fractal_data[7][3] = FReal(-5, 8)

(***************************************************************************)
(* Claims about compute_multinomial_coefficient.                           *)
(***************************************************************************)
CalledMultinomial == "compute_multinomial_coefficient" \in called

\* the product k_1! * ... * k_m!
RECURSIVE FactorialProduct(_)
FactorialProduct(ks) ==
    IF ks = <<>> THEN 1 ELSE factorial(Head(ks)) * FactorialProduct(Tail(ks))

\* the lists that are ks in another order
Reorderings(ks) ==
    {[idx \in DOMAIN ks |-> ks[f[idx]]] :
        f \in {g \in [DOMAIN ks -> DOMAIN ks] : \A a, b \in DOMAIN ks : a # b => g[a] # g[b]}}

\* the value create_pascal_3d gives the point (i, j, k) of row n, dimension 3
TetrahedronValue(n, ks) == TetraPoint(n, ks[1], ks[2])[4]

\* C29: compute_multinomial_coefficient(n, k_list) raises ValueError exactly
\* when the k do not sum to n; otherwise it returns n!/(k_1! ... k_m!), the
\* value create_pascal_3d gives the triple in dimension 3, and the same for
\* every order of the k.
C29_Multinomial ==
    CalledMultinomial =>
        /\ raised = "ValueError" <=> SumSeq(k_list) # mc_n
        /\ raised = "none" <=> SumSeq(k_list) = mc_n
        /\ raised = "none" =>
              /\ Len(coefficient) = 1
              /\ coefficient[1] * FactorialProduct(k_list) = factorial(mc_n)
              /\ Len(k_list) = 3 => coefficient[1] = TetrahedronValue(mc_n, k_list)
              /\ \A other \in Reorderings(k_list) :
                    compute_multinomial_coefficient(mc_n, other)
                      = [raised |-> "none", value |-> coefficient[1]]

C29_Witness ==
    /\ CalledMultinomial
    /\ mc_n = 4
    /\ k_list = <<1, 2, 1>>
    /\ coefficient = <<12>>

(***************************************************************************)
(* Claims about the structure generator.                                   *)
(***************************************************************************)
IsInitFile(path) == path # <<>> /\ path[Len(path)] = InitName

BelowSrc(path) == path # <<>> /\ path[1] = "src"

ListedFolders == {folders[idx] : idx \in DOMAIN folders}

\* directories are created before the first __init__.py of the run is
C30_TreeFirst ==
    /\ dirs' # dirs => gpc \in {"start", "folders"}
    /\ (\E path \in files' \ files : IsInitFile(path)) =>
          gpc = "inits" /\ folder_idx = Len(folders) + 1
    /\ gpc = "inits" => gpc' \in {"inits", "boilerplate"}

\* a run without a failure leaves every listed folder and an __init__.py in
\* src and in every directory below it
C30_Complete ==
    (gpc = "done" /\ failed = {}) =>
        /\ ListedFolders \subseteq dirs
        /\ src_base \in dirs
        /\ \A path \in dirs : BelowSrc(path) => (path \o <<InitName>>) \in files

\* a folder or file that fails is skipped and the next one is tried: at the
\* end every listed folder and every __init__.py is there or has failed
C30_Continues ==
    /\ (failed' # failed /\ gpc \in {"folders", "inits", "boilerplate"}) =>
          gpc' \in {"folders", "walk", "inits", "boilerplate", "done"}
    /\ gpc' = "done" =>
          /\ \A path \in ListedFolders : path \in dirs' \/ path \in failed'
          /\ \A path \in dirs' :
                BelowSrc(path) =>
                    \/ (path \o <<InitName>>) \in files'
                    \/ (path \o <<InitName>>) \in failed'

\* a second run after a first run without a failure changes neither set
C30_SecondRunSame ==
    (run = "second" /\ first_run[1].clean) =>
        dirs = first_run[1].dirs /\ files = first_run[1].files

====
